---------------------------- MODULE Spec2Model ----------------------------
(***************************************************************************)
(* A model of the QtCSG kernel (src/qtcsg/qtcsg.cpp): vertices, planes and *)
(* polygons, the polygon splitter, the BSP tree (Node) with its build,     *)
(* invert, clipPolygons, clipTo and allPolygons operations, and the three  *)
(* boolean operators merge, subtract and intersect.                        *)
(*                                                                         *)
(* Numbers.  The code computes with float.  The model computes with        *)
(* fixed-point integers: a float x is the integer x * Unit.  All inputs    *)
(* the specifications draw are polygons whose first three vertices span    *)
(* an axis-aligned plane and whose coordinates are multiples of 1/Unit;    *)
(* on these every float operation of the kernel (dot product, the          *)
(* normalisation of an axis-parallel vector, the interpolation of a        *)
(* vertex on an axis-aligned plane) is exact, and so is its fixed-point    *)
(* counterpart.                                                            *)
(*                                                                         *)
(* Memory.  Node objects live in a heap (a sequence of node records, a     *)
(* node's address is its index); m_front and m_back are addresses or       *)
(* Null, exactly as the std::shared_ptr<Node> members of the class.        *)
(***************************************************************************)
EXTENDS Integers, Sequences, FiniteSets, TLC

(***************************************************************************)
(* Fixed-point numbers and QVector3D                                       *)
(***************************************************************************)

\* The fixed-point resolution: the float 1.0f is the integer Unit.
Unit == 2

\* options.epsilon is 1e-5 = 1 / EpsilonInv.
EpsilonInv == 100000

\* F(x), the value x computed once and then handed to F: a local variable
\* of the code that is assigned once and read several times.
Let(x, F(_)) == CHOOSE r \in { F(v) : v \in {x} } : TRUE

\* QVector3D{}
Zero3 == <<0, 0, 0>>

\* QVector3D{x, y, z} of whole numbers
Vec(x, y, z) == <<x * Unit, y * Unit, z * Unit>>

VAdd(a, b) == <<a[1] + b[1], a[2] + b[2], a[3] + b[3]>>

VSub(a, b) == <<a[1] - b[1], a[2] - b[2], a[3] - b[3]>>

VNeg(a) == <<-a[1], -a[2], -a[3]>>

\* The sum of the component products, not yet rescaled.
DotRaw(a, b) == a[1] * b[1] + a[2] * b[2] + a[3] * b[3]

\* QVector3D::dotProduct of two fixed-point vectors, as a fixed-point number.
dotProduct(a, b) == DotRaw(a, b) \div Unit

\* QVector3D::crossProduct.  Its only use in the kernel is under
\* normalized(), which is invariant under scaling, so the products are
\* left unscaled.
crossProduct(a, b) ==
    << a[2] * b[3] - a[3] * b[2],
       a[3] * b[1] - a[1] * b[3],
       a[1] * b[2] - a[2] * b[1] >>

\* The integer square root.
ISqrt(n) ==
    Let(n, LAMBDA m : CHOOSE r \in 0..m : r * r <= m /\ m < (r + 1) * (r + 1))

\* QVector3D::normalized: the null vector stays null, any other vector is
\* divided by its length.
Scaled(v, len) ==
    << (v[1] * Unit) \div len, (v[2] * Unit) \div len, (v[3] * Unit) \div len >>

normalized(v) ==
    IF v = Zero3
    THEN Zero3
    ELSE Let(ISqrt(DotRaw(v, v)), LAMBDA len : Scaled(v, len))

normalVector(a, b, c) ==
    Let(crossProduct(VSub(b, a), VSub(c, a)), LAMBDA v : normalized(v))

\* lerp(a, b, t) = a + (b - a) * t with t the fraction num / den.
lerp(a, b, num, den) ==
    << a[1] + ((b[1] - a[1]) * num) \div den,
       a[2] + ((b[2] - a[2]) * num) \div den,
       a[3] + ((b[3] - a[3]) * num) \div den >>

(***************************************************************************)
(* Vertex, Plane, Polygon                                                  *)
(***************************************************************************)

Vertex(position, normal) == [position |-> position, normal |-> normal]

VertexFlip(v) == [v EXCEPT !.normal = VNeg(v.normal)]

interpolated(v, other, num, den) ==
    Vertex(lerp(v.position, other.position, num, den),
           lerp(v.normal, other.normal, num, den))

Plane(normal, w) == [normal |-> normal, w |-> w]

\* Plane{}: the null plane of a node that holds no polygon yet.
NullPlane == Plane(Zero3, 0)

isNull(plane) == plane.normal = Zero3

fromPoints(a, b, c) ==
    Let(normalVector(a, b, c), LAMBDA n : Plane(n, dotProduct(n, a)))

\* A flip of the normal alone.
PlaneFlipNormal(plane) == Plane(VNeg(plane.normal), plane.w)

PlaneFlip(plane) == Plane(VNeg(plane.normal), -plane.w)

\* The null QVariant: the shared tag of a polygon constructed without one.
NoShared == << >>

\* Polygon{vertices, shared}: the plane is derived from the first three
\* vertices.
Polygon(vertices, shared) ==
    Let(vertices, LAMBDA v : [vertices |-> v,
                              shared   |-> shared,
                              plane    |-> fromPoints(v[1].position,
                                                      v[2].position,
                                                      v[3].position)])

Reverse(s) == [i \in 1..Len(s) |-> s[Len(s) + 1 - i]]

PolygonFlip(p) ==
    [p EXCEPT !.vertices = [i \in 1..Len(p.vertices) |->
                               VertexFlip(Reverse(p.vertices)[i])],
              !.plane = PlaneFlip(p.plane)]

FlipAll(polygons) == [i \in 1..Len(polygons) |-> PolygonFlip(polygons[i])]

(***************************************************************************)
(* split                                                                   *)
(***************************************************************************)

Coplanar == 0
Front == 1
Back == 2
Spanning == 3

\* The bitwise or of two VertexType values.
TypeOr(s, t) ==
    (IF s % 2 = 1 \/ t % 2 = 1 THEN 1 ELSE 0)
    + (IF s \div 2 = 1 \/ t \div 2 = 1 THEN 2 ELSE 0)

\* t = dotProduct(plane.normal(), v.position()) - plane.w()
Distance(plane, v) == dotProduct(plane.normal, v.position) - plane.w

\* A classification without the type Coplanar.
VertexTypeOfTwoSided(t) == IF t * EpsilonInv < -Unit THEN Back ELSE Front

\* (t < -epsilon) ? Back : (t > epsilon) ? Front : Coplanar
VertexTypeOf(t) ==
    IF t * EpsilonInv < -Unit THEN Back
    ELSE IF t * EpsilonInv > Unit THEN Front
    ELSE Coplanar

\* The type of vertex i of the polygon with respect to the plane.
vertexType(polygon, plane, i) ==
    VertexTypeOf(Distance(plane, polygon.vertices[i]))

\* The bitwise or of the types of all vertices.
polygonType(polygon, plane) ==
    (IF \E i \in 1..Len(polygon.vertices) : vertexType(polygon, plane, i) = Front
     THEN Front ELSE Coplanar)
    + (IF \E i \in 1..Len(polygon.vertices) : vertexType(polygon, plane, i) = Back
       THEN Back ELSE Coplanar)

\* The vertex i itself in place of the vertex on the edge: t = 0.
EdgeVertexAtStart(polygon, plane, i, j) ==
    interpolated(polygon.vertices[i], polygon.vertices[j], 0, 1)

\* The vertex the Spanning case computes on the edge from vertex i to
\* vertex j: t = (w - normal . vi) / (normal . (vj - vi)).
EdgeVertex(polygon, plane, i, j) ==
    interpolated(polygon.vertices[i], polygon.vertices[j],
                 plane.w - dotProduct(plane.normal, polygon.vertices[i].position),
                 dotProduct(plane.normal, VSub(polygon.vertices[j].position,
                                               polygon.vertices[i].position)))

\* A turn that never computes the vertex on the edge.
SpanTurnWithoutCut(polygon, plane, side, i) ==
    IF vertexType(polygon, plane, i) # Spanning - side
    THEN << polygon.vertices[i] >>
    ELSE << >>

\* What one turn of the loop of the Spanning case appends to the list f
\* (side = Front) or b (side = Back): vertex i unless it lies on the other
\* side, then the new vertex if the edge to the next vertex spans.
SpanTurn(polygon, plane, side, i) ==
    (IF vertexType(polygon, plane, i) # Spanning - side
     THEN << polygon.vertices[i] >>
     ELSE << >>)
    \o
    (IF TypeOr(vertexType(polygon, plane, i),
               vertexType(polygon, plane, (i % Len(polygon.vertices)) + 1)) = Spanning
     THEN << EdgeVertex(polygon, plane, i, (i % Len(polygon.vertices)) + 1) >>
     ELSE << >>)

\* The list f (side = Front) or b (side = Back) after the turns 1..i.
RECURSIVE SpanWalk(_, _, _, _)
SpanWalk(polygon, plane, side, i) ==
    IF i = 0
    THEN << >>
    ELSE SpanWalk(polygon, plane, side, i - 1) \o SpanTurn(polygon, plane, side, i)

\* A fragment constructed without the shared tag of the polygon.
FragmentUntagged(to, vertices, shared) ==
    Let(vertices, LAMBDA f : IF Len(f) >= 3
                             THEN << [to |-> to, polygon |-> Polygon(f, NoShared)] >>
                             ELSE << >>)

\* if (f.count() >= 3) front->append(Polygon{std::move(f), polygon.shared()});
Fragment(to, vertices, shared) ==
    Let(vertices, LAMBDA f : IF Len(f) >= 3
                             THEN << [to |-> to, polygon |-> Polygon(f, shared)] >>
                             ELSE << >>)

\* The four cases of the switch over the type of the polygon.
SplitCase(polygon, plane, type) ==
    CASE type = Coplanar ->
            IF dotProduct(plane.normal, polygon.plane.normal) > 0
            THEN << [to |-> "coplanarFront", polygon |-> polygon] >>
            ELSE << [to |-> "coplanarBack", polygon |-> polygon] >>
      [] type = Front ->
            << [to |-> "front", polygon |-> polygon] >>
      [] type = Back ->
            << [to |-> "back", polygon |-> polygon] >>
      [] OTHER ->
            Fragment("front",
                     SpanWalk(polygon, plane, Front, Len(polygon.vertices)),
                     polygon.shared)
            \o
            Fragment("back",
                     SpanWalk(polygon, plane, Back, Len(polygon.vertices)),
                     polygon.shared)

\* split(polygon, plane, coplanarFront, coplanarBack, front, back): the
\* appends it makes, in order, each naming the list it appends to.
split(polygon, plane) ==
    Let(polygonType(polygon, plane), LAMBDA type : SplitCase(polygon, plane, type))

\* The polygons of a list of appends.
PolygonsOf(appends) == [k \in 1..Len(appends) |-> appends[k].polygon]

\* The polygons that the calls of split for polygons 1..i of the list
\* append to the lists named in `names`, in the order of the appends.
RECURSIVE Appended(_, _, _, _)
Appended(polygons, plane, names, i) ==
    IF i = 0
    THEN << >>
    ELSE Appended(polygons, plane, names, i - 1)
         \o Let(split(polygons[i], plane),
                LAMBDA appends : PolygonsOf(SelectSeq(appends,
                                                      LAMBDA x : x.to \in names)))

(***************************************************************************)
(* cube                                                                    *)
(***************************************************************************)

\* i & mask ? +1 : -1
Direction(i, mask) == IF (i \div mask) % 2 = 1 THEN 1 ELSE -1

\* center + size * directions
Corner(center, size, i) ==
    VAdd(center, << size[1] * Direction(i, 1),
                    size[2] * Direction(i, 2),
                    size[3] * Direction(i, 4) >>)

\* makePolygon with the corners taken in the opposite order.
makePolygonClockwise(center, size, indices, normal) ==
    Polygon([k \in 1..4 |-> Vertex(Corner(center, size, indices[5 - k]), normal)],
            NoShared)

makePolygon(center, size, indices, normal) ==
    Polygon([k \in 1..4 |-> Vertex(Corner(center, size, indices[k]), normal)],
            NoShared)

NoError == "NoError"
RecursionError == "RecursionError"
ConvexityError == "ConvexityError"
NotSupportedError == "NotSupportedError"

\* Geometry{polygons}
Geometry(polygons) == [polygons |-> polygons, error |-> NoError]

\* Geometry{error}
GeometryError(error) == [polygons |-> << >>, error |-> error]

\* cube(center, size) with size the half extent per axis, a multiplier of
\* the unit directions.
cube(center, size) ==
    Geometry(<< makePolygon(center, size, <<0, 4, 6, 2>>, Vec(-1, 0, 0)),
                makePolygon(center, size, <<1, 3, 7, 5>>, Vec(1, 0, 0)),
                makePolygon(center, size, <<0, 1, 5, 4>>, Vec(0, -1, 0)),
                makePolygon(center, size, <<2, 6, 7, 3>>, Vec(0, 1, 0)),
                makePolygon(center, size, <<0, 2, 3, 1>>, Vec(0, 0, -1)),
                makePolygon(center, size, <<4, 5, 7, 6>>, Vec(0, 0, 1)) >>)

(***************************************************************************)
(* sphere                                                                  *)
(***************************************************************************)

\* The lambda `vertex` of sphere.  The angles theta = 2 pi i / slices and
\* phi = pi j / stacks are kept as fractions of pi (numerator, denominator);
\* the normal is the unit vector of these angles and the position is
\* center + normal * radius.
vertex(center, radius, slices, stacks, i, j) ==
    Let([theta |-> << 2 * i, slices >>, phi |-> << j, stacks >>],
        LAMBDA normal : Vertex([center |-> center, radius |-> radius, normal |-> normal],
                               normal))

\* The list `vertices` of slice i and stack j when the polygon is made.
SphereVertices(center, radius, slices, stacks, i, j) ==
    << vertex(center, radius, slices, stacks, i, j) >>
    \o (IF j > 0 THEN << vertex(center, radius, slices, stacks, i + 1, j) >> ELSE << >>)
    \o (IF j < stacks - 1
        THEN << vertex(center, radius, slices, stacks, i + 1, j + 1) >>
        ELSE << >>)
    \o << vertex(center, radius, slices, stacks, i, j + 1) >>

\* Polygon{vertices} for a polygon of the sphere: the plane is the one
\* through the positions m_vertices[0], [1], [2].  Reading a list beyond
\* its end is undefined; `beyond` is what such a read yields.
SpherePolygon(vertices, beyond) ==
    [vertices |-> vertices,
     shared   |-> NoShared,
     plane    |-> [through |-> [k \in 1..3 |-> IF k <= Len(vertices)
                                                THEN vertices[k].position
                                                ELSE beyond]]]

\* sphere(center, radius, slices, stacks): the two loops append the
\* polygon of slice i and stack j as number i * stacks + j.
sphere(center, radius, slices, stacks, beyond) ==
    Geometry([k \in 1..(slices * stacks) |->
                 SpherePolygon(SphereVertices(center, radius, slices, stacks,
                                              (k - 1) \div stacks, (k - 1) % stacks),
                               beyond)])

(***************************************************************************)
(* OffFileFormat: the text of a file, writeGeometry, readGeometry          *)
(***************************************************************************)

FileFormatError == "FileFormatError"

\* A text is a list of lines and a line a list of fields separated by one
\* blank.  A field is a word, or a number written with digits (and a
\* decimal point) or with an exponent; of a number the model keeps the
\* value the text denotes, counted in tenths.
Word(w) == [form |-> "word", word |-> w, tenths |-> 0]

Number(form, tenths) == [form |-> form, word |-> "", tenths |-> tenths]

\* line.section(' ', k, k): the empty string beyond the last field.
Section(line, k) == IF k < Len(line) THEN line[k + 1] ELSE Word("")

\* stream << n for an integer n
FormatInt(n) == Number("digits", 10 * n)

\* The power of ten by which a number of n tenths exceeds six digits.
RECURSIVE Excess(_)
Excess(n) == IF n < 1000000 THEN 1 ELSE 10 * Excess(n \div 10)

\* n rounded to a multiple of p, a tie to the even multiple.
Rounded(n, p) ==
    IF 2 * (n % p) > p \/ (2 * (n % p) = p /\ (n \div p) % 2 = 1)
    THEN (n \div p + 1) * p
    ELSE (n \div p) * p

\* realNumberPrecision of QTextStream: six significant digits.
SixDigits(n) == Rounded(n, Excess(n))

\* stream << x for the float x: the shortest text of at most six
\* significant digits, with an exponent from 1e+06 on.
FormatFloat(x) ==
    Let((x * 10) \div Unit, LAMBDA t :
        Let(SixDigits(IF t < 0 THEN -t ELSE t), LAMBDA r :
            Number(IF r >= 10000000 THEN "exponent" ELSE "digits",
                   IF t < 0 THEN -r ELSE r)))

\* toInt(&ok), toUInt(&ok), toFloat(&ok): whether the field converts.
IntOk(field) == field.form = "digits" /\ field.tenths % 10 = 0

UIntOk(field) == IntOk(field) /\ field.tenths >= 0

FloatOk(field) == field.form \in {"digits", "exponent"}

toInt(field) == field.tenths \div 10

\* toFloat: the float next to the number; the numbers of the model's
\* texts are floats of the grid.
toFloat(field) == (field.tenths * Unit) \div 10

\* it - vertices.begin()
IndexOf(found, position) ==
    (CHOOSE n \in 1..Len(found) : found[n] = position) - 1

\* The inner loop of writeGeometry after the first n vertices of the
\* polygon: std::find and emplace keep each position once in `vertices`,
\* in the order of its first use; the index found goes to the face.
RECURSIVE Collected(_, _, _)
Collected(vertices, polygon, n) ==
    IF n = 0
    THEN [vertices |-> vertices, face |-> << >>]
    ELSE Let(Collected(vertices, polygon, n - 1), LAMBDA c :
             IF \E k \in 1..Len(c.vertices) : c.vertices[k] = polygon.vertices[n].position
             THEN [c EXCEPT !.face = Append(@, IndexOf(c.vertices,
                                                       polygon.vertices[n].position))]
             ELSE [vertices |-> Append(c.vertices, polygon.vertices[n].position),
                   face     |-> Append(c.face, Len(c.vertices))])

\* The outer loop of writeGeometry after the first k polygons.
RECURSIVE Faces(_, _)
Faces(polygons, k) ==
    IF k = 0
    THEN [vertices |-> << >>, faces |-> << >>]
    ELSE Let(Faces(polygons, k - 1), LAMBDA w :
             Let(Collected(w.vertices, polygons[k], Len(polygons[k].vertices)),
                 LAMBDA c : [vertices |-> c.vertices, faces |-> Append(w.faces, c.face)]))

\* The line of a vertex and the line of a face.
VertexLine(v) == << FormatFloat(v[1]), FormatFloat(v[2]), FormatFloat(v[3]) >>

FaceLine(face) ==
    << FormatInt(Len(face)) >> \o [n \in 1..Len(face) |-> FormatInt(face[n])]

\* OffFileFormat::writeGeometry: the text written to the device.
writeGeometry(geometry) ==
    Let(Faces(geometry.polygons, Len(geometry.polygons)), LAMBDA w :
        << << Word("OFF") >>,
           << FormatInt(Len(w.vertices)), FormatInt(Len(w.faces)), FormatInt(0) >> >>
        \o [n \in 1..Len(w.vertices) |-> VertexLine(w.vertices[n])]
        \o [n \in 1..Len(w.faces) |-> FaceLine(w.faces[n])])

\* The local variables of readGeometry before the first line.
ReaderStart ==
    [state |-> "Magic", vertexCount |-> 0, faceCount |-> 0,
     vertices |-> << >>, polygons |-> << >>]

\* The reader goes on with the next line, or has returned.
Continue(r) == [done |-> FALSE, r |-> r, result |-> GeometryError(FileFormatError)]

Done(geometry) == [done |-> TRUE, r |-> ReaderStart, result |-> geometry]

\* case State::Magic
ReadMagic(line, r) ==
    IF line # << Word("OFF") >>
    THEN Done(GeometryError(NotSupportedError))
    ELSE Continue([r EXCEPT !.state = "Header"])

\* case State::Header
ReadHeader(line, r) ==
    IF ~IntOk(Section(line, 0)) \/ ~IntOk(Section(line, 1))
    THEN Done(GeometryError(FileFormatError))
    ELSE Continue([r EXCEPT !.vertexCount = toInt(Section(line, 0)),
                            !.faceCount = toInt(Section(line, 1)),
                            !.state = "Vertices"])

\* case State::Vertices
ReadVertex(line, r) ==
    IF FloatOk(Section(line, 0)) /\ FloatOk(Section(line, 1)) /\ FloatOk(Section(line, 2))
    THEN Continue([r EXCEPT !.vertices = Append(@, << toFloat(Section(line, 0)),
                                                      toFloat(Section(line, 1)),
                                                      toFloat(Section(line, 2)) >>),
                            !.vertexCount = @ - 1,
                            !.state = IF r.vertexCount - 1 = 0 THEN "Faces" ELSE "Vertices"])
    ELSE Done(GeometryError(FileFormatError))

\* The list `outline` of a face: vertex j gets the normal of the corner
\* between its neighbours.
Outline(vertices, indices) ==
    [j \in 1..Len(indices) |->
        Let(vertices[indices[(((j - 1) + Len(indices) - 1) % Len(indices)) + 1] + 1],
            LAMBDA va :
                Let(vertices[indices[j] + 1], LAMBDA vb :
                    Let(vertices[indices[(j % Len(indices)) + 1] + 1], LAMBDA vc :
                        Vertex(vb, normalized(crossProduct(VSub(vb, va), VSub(vc, va)))))))]

\* case State::Faces; the faces of the texts read have three indices or
\* more.
ReadFace(line, r) ==
    IF ~IntOk(Section(line, 0))
    THEN Done(GeometryError(FileFormatError))
    ELSE Let(toInt(Section(line, 0)), LAMBDA n :
             IF \E i \in 1..n : \/ ~UIntOk(Section(line, i))
                                \/ toInt(Section(line, i)) >= Len(r.vertices)
             THEN Done(GeometryError(FileFormatError))
             ELSE Let(Append(r.polygons,
                             Polygon(Outline(r.vertices,
                                             [i \in 1..n |-> toInt(Section(line, i))]),
                                     NoShared)),
                      LAMBDA polygons :
                          IF r.faceCount - 1 = 0
                          THEN Done(Geometry(polygons))
                          ELSE Continue([r EXCEPT !.polygons = polygons,
                                                  !.faceCount = @ - 1])))

\* One turn of the loop over the lines: the switch over the state.
ReadLine(line, r) ==
    IF line # << >> /\ line[1].form = "word" /\ line[1].word = "#"
    THEN Continue(r)
    ELSE CASE r.state = "Magic" -> ReadMagic(line, r)
           [] r.state = "Header" -> ReadHeader(line, r)
           [] r.state = "Vertices" -> ReadVertex(line, r)
           [] OTHER -> ReadFace(line, r)

\* The loop from line k on; at the end of the text: unexpected end of file.
RECURSIVE ReadFrom(_, _, _)
ReadFrom(lines, k, r) ==
    IF k > Len(lines)
    THEN GeometryError(FileFormatError)
    ELSE Let(ReadLine(lines[k], r), LAMBDA turn :
             IF turn.done THEN turn.result ELSE ReadFrom(lines, k + 1, turn.r))

\* OffFileFormat::readGeometry
readGeometry(lines) == ReadFrom(lines, 1, ReaderStart)

(***************************************************************************)
(* Options and the inspection callback                                     *)
(***************************************************************************)

\* Options::recursionLimit as the Options constructor sets it.
DefaultRecursionLimit == 1024

\* An inspection callback is a closure with a state of its own.  The model
\* covers the callbacks that count their invocations and answer Abort for
\* the invocations number first..last (counted from 0) and Proceed for
\* all others, like the step slider of the demo application.
Callback(first, last) == [installed |-> TRUE, first |-> first, last |-> last]

\* Options::inspection left empty.
NoCallback == [installed |-> FALSE, first |-> 1, last |-> 0]

Options(recursionLimit, inspection) ==
    [recursionLimit |-> recursionLimit, inspection |-> inspection]

(***************************************************************************)
(* The heap of Node objects                                                *)
(***************************************************************************)

\* The empty std::shared_ptr<Node>.
Null == 0

\* Node{}
EmptyNode ==
    [plane |-> NullPlane, polygons |-> << >>, front |-> Null, back |-> Null]

\* The memory: the Node objects, the number of callback invocations made
\* so far, and whether a build call was entered at the recursion limit.
Memory(heap) == [heap |-> heap, calls |-> 0, limitHit |-> FALSE]

\* A new Node{} (a variable of type Node, or std::make_shared<Node>()).
Alloc(m) == [m EXCEPT !.heap = Append(@, EmptyNode)]

\* A callback that answers Abort whenever it is installed.
AbortsAlways(m, options) == options.inspection.installed

\* Q_UNLIKELY(options.inspection) && options.inspection(...) == Abort
Aborts(m, options) ==
    /\ options.inspection.installed
    /\ options.inspection.first <= m.calls
    /\ m.calls <= options.inspection.last

\* The callback, when installed, has been invoked once more.
Called(m, options) ==
    IF options.inspection.installed THEN [m EXCEPT !.calls = @ + 1] ELSE m

(***************************************************************************)
(* Node::invert, Node::inverted                                            *)
(***************************************************************************)

\* A move in place of the swap: m_front = std::move(m_back);
SwapByMove(node) == [node EXCEPT !.front = node.back, !.back = Null]

\* std::swap(m_front, m_back)
SwapChildren(node) == [node EXCEPT !.front = node.back, !.back = node.front]

\* The polygons flipped before the callback is asked.
RECURSIVE invertFlipFirst(_, _, _)
invertFlipFirst(m, id, options) ==
    LET n == [m EXCEPT !.heap[id].polygons = FlipAll(@)]
    IN  IF Aborts(n, options)
        THEN Called(n, options)
        ELSE LET m1 == [Called(n, options) EXCEPT !.heap[id].plane = PlaneFlip(@)]
                 m2 == IF m1.heap[id].front # Null
                       THEN invertFlipFirst(m1, m1.heap[id].front, options)
                       ELSE m1
                 m3 == IF m2.heap[id].back # Null
                       THEN invertFlipFirst(m2, m2.heap[id].back, options)
                       ELSE m2
             IN  [m3 EXCEPT !.heap[id] = SwapChildren(@)]

RECURSIVE invert(_, _, _)
invert(m, id, options) ==
    IF Aborts(m, options)
    THEN Called(m, options)
    ELSE LET m0 == Called(m, options)
             m1 == [m0 EXCEPT !.heap[id].polygons = FlipAll(@),
                              !.heap[id].plane = PlaneFlip(@)]
             m2 == IF m1.heap[id].front # Null
                   THEN invert(m1, m1.heap[id].front, options)
                   ELSE m1
             m3 == IF m2.heap[id].back # Null
                   THEN invert(m2, m2.heap[id].back, options)
                   ELSE m2
         IN  [m3 EXCEPT !.heap[id] = SwapChildren(@)]

\* auto node = *this: the copy constructor of Node copies the plane, the
\* polygon list and the two shared pointers.
CopyNode(m, id) == [m EXCEPT !.heap = Append(@, m.heap[id])]

\* Node::inverted: the memory after the call; the returned Node is the
\* last object of the heap.
inverted(m, id, options) ==
    LET m1 == CopyNode(m, id)
    IN  invert(m1, Len(m1.heap), options)

(***************************************************************************)
(* Node::clipPolygons, Node::clipTo, Node::allPolygons                     *)
(***************************************************************************)

\* The lists that the call split(p, m_plane, &front, &back, &front, &back)
\* of clipPolygons makes one list of: front, and back.
ClipFront == {"coplanarFront", "front"}

\* Both coplanar lists taken for the front list.
ClipBackOnly == {"back"}

ClipBack == {"coplanarBack", "back"}

\* The back list is kept where the node has no back child.
BackKept(back) == back

\* else back.clear();
Cleared(back) == << >>

RECURSIVE clipPolygons(_, _, _)
clipPolygons(heap, id, polygons) ==
    LET node == heap[id]
    IN  IF isNull(node.plane)
        THEN polygons
        ELSE LET front   == Appended(polygons, node.plane, ClipFront, Len(polygons))
                 back    == Appended(polygons, node.plane, ClipBack, Len(polygons))
                 front1  == IF node.front # Null
                            THEN clipPolygons(heap, node.front, front)
                            ELSE front
                 back1   == IF node.back # Null
                            THEN clipPolygons(heap, node.back, back)
                            ELSE Cleared(back)
             IN  front1 \o back1

\* A node whose polygon list becomes empty gives up its children.
ClipNodePruned(m, id, bsp) ==
    Let(clipPolygons(m.heap, bsp, m.heap[id].polygons), LAMBDA clipped :
        [m EXCEPT !.heap[id].polygons = clipped,
                  !.heap[id].front = IF clipped = << >> THEN Null ELSE @,
                  !.heap[id].back = IF clipped = << >> THEN Null ELSE @])

\* m_polygons = bsp.clipPolygons(std::move(m_polygons), options);
ClipNode(m, id, bsp) ==
    [m EXCEPT !.heap[id].polygons = clipPolygons(m.heap, bsp, @)]

RECURSIVE clipTo(_, _, _, _)
clipTo(m, id, bsp, options) ==
    IF Aborts(m, options)
    THEN Called(m, options)
    ELSE LET m0 == Called(m, options)
             m1 == ClipNode(m0, id, bsp)
             m2 == IF m1.heap[id].front # Null
                   THEN clipTo(m1, m1.heap[id].front, bsp, options)
                   ELSE m1
         IN  IF m2.heap[id].back # Null
             THEN clipTo(m2, m2.heap[id].back, bsp, options)
             ELSE m2

\* The back subtree listed before the front subtree.
RECURSIVE allPolygonsBackFirst(_, _)
allPolygonsBackFirst(heap, id) ==
    heap[id].polygons
    \o (IF heap[id].back # Null THEN allPolygonsBackFirst(heap, heap[id].back) ELSE << >>)
    \o (IF heap[id].front # Null THEN allPolygonsBackFirst(heap, heap[id].front) ELSE << >>)

RECURSIVE allPolygons(_, _)
allPolygons(heap, id) ==
    heap[id].polygons
    \o (IF heap[id].front # Null THEN allPolygons(heap, heap[id].front) ELSE << >>)
    \o (IF heap[id].back # Null THEN allPolygons(heap, heap[id].back) ELSE << >>)

(***************************************************************************)
(* Node::build                                                             *)
(***************************************************************************)

\* A build without the check of the level.
LimitNeverReached(level, options) == FALSE

\* Q_UNLIKELY(level >= options.recursionLimit)
LimitReached(level, options) == level >= options.recursionLimit

\* Lines 758-766 of build on one node: the plane the node splits by, the
\* polygons it keeps itself and the lists for its two children.
BuildSplit(node, polygons) ==
    LET plane == IF isNull(node.plane) THEN polygons[1].plane ELSE node.plane
    IN  [plane |-> plane,
         own   |-> Appended(polygons, plane, {"coplanarFront", "coplanarBack"},
                            Len(polygons)),
         front |-> Appended(polygons, plane, {"front"}, Len(polygons)),
         back  |-> Appended(polygons, plane, {"back"}, Len(polygons))]

\* The split loop with a list of its own in place of m_polygons.
BuildStoreReplaced(m, id, s) ==
    [m EXCEPT !.heap[id].plane = s.plane,
              !.heap[id].polygons = s.own]

\* m_plane and m_polygons of node `id` after the split loop.
BuildStore(m, id, s) ==
    [m EXCEPT !.heap[id].plane = s.plane,
              !.heap[id].polygons = @ \o s.own]

\* if (!m_front) m_front = std::make_shared<Node>();
EnsureFront(m, id) ==
    IF m.heap[id].front = Null
    THEN [Alloc(m) EXCEPT !.heap[id].front = Len(m.heap) + 1]
    ELSE m

\* if (!m_back) m_back = std::make_shared<Node>();
EnsureBack(m, id) ==
    IF m.heap[id].back = Null
    THEN [Alloc(m) EXCEPT !.heap[id].back = Len(m.heap) + 1]
    ELSE m

\* result = error: the error of the last child called.
LastError(result, error) == error

\* error != Error::NoError && result == Error::NoError ? error : result
FirstError(result, error) ==
    IF error # NoError /\ result = NoError THEN error ELSE result

\* Lines 746-749: return Error::RecursionError;
LimitError(m) == [m |-> [m EXCEPT !.limitHit = TRUE], error |-> RecursionError]

\* An Abort reported as an error.
AbortedAsError(m, options) == [m |-> Called(m, options), error |-> RecursionError]

\* Lines 751-753: the callback has answered Abort: return Error::NoError;
Aborted(m, options) == [m |-> Called(m, options), error |-> NoError]

\* Lines 755-756: if (polygons.empty()) return Error::NoError;
NothingToDo(m, options) == [m |-> Called(m, options), error |-> NoError]

RECURSIVE build(_, _, _, _, _)

\* Lines 768-775: the build of the front child, if the list front is not
\* empty, and the Error it returns.
BuildFront(m, id, front, level, options) ==
    IF front # << >>
    THEN Let(EnsureFront(m, id),
             LAMBDA m2 : build(m2, m2.heap[id].front, front, level + 1, options))
    ELSE [m |-> m, error |-> NoError]

\* Lines 777-784: the same for the back child.
BuildBack(m, id, back, level, options) ==
    IF back # << >>
    THEN Let(EnsureBack(m, id),
             LAMBDA m3 : build(m3, m3.heap[id].back, back, level + 1, options))
    ELSE [m |-> m, error |-> NoError]

\* Lines 762-786: the builds of the two children and the value returned,
\* the first error of the two or NoError.
BuildChildren(m, id, s, level, options) ==
    Let(BuildFront(m, id, s.front, level, options), LAMBDA r1 :
        Let(BuildBack(r1.m, id, s.back, level, options), LAMBDA r2 :
            [m |-> r2.m,
             error |-> FirstError(FirstError(NoError, r1.error), r2.error)]))

\* Node::build(polygons, level, options): the memory after the call and
\* the Error it returns.
build(m, id, polygons, level, options) ==
    IF LimitReached(level, options)
    THEN LimitError(m)
    ELSE IF Aborts(m, options)
    THEN Aborted(m, options)
    ELSE IF polygons = << >>
    THEN NothingToDo(m, options)
    ELSE Let(BuildSplit(m.heap[id], polygons), LAMBDA s :
             Let(BuildStore(Called(m, options), id, s), LAMBDA m1 :
                 BuildChildren(m1, id, s, level, options)))

(***************************************************************************)
(* merge, subtract, intersect as programs                                  *)
(***************************************************************************)

\* Utils::reportError as built with QTCSG_IGNORE_ERRORS.
reportErrorIgnored(error) == FALSE

\* Utils::reportError in the default build (QTCSG_IGNORE_ERRORS not
\* defined): true when `error` indicates a problem.
reportError(error) == error # NoError

\* The statements of the three operators between the construction of the
\* nodes a and b and the return statement, in the order of the code.
\* merge without its second pass over b.
MergeCodeOnePass ==
    << "a.build(lhs)", "b.build(rhs)",
       "a.clipTo(b)", "b.clipTo(a)",
       "a.build(b.allPolygons())" >>

MergeCode ==
    << "a.build(lhs)", "b.build(rhs)",
       "a.clipTo(b)", "b.clipTo(a)", "b.invert()", "b.clipTo(a)", "b.invert()",
       "a.build(b.allPolygons())" >>

\* subtract without its final a.invert().
SubtractCodeUninverted ==
    << "a.build(lhs)", "b.build(rhs)",
       "a.invert()", "a.clipTo(b)", "b.clipTo(a)", "b.invert()", "b.clipTo(a)",
       "b.invert()",
       "a.build(b.allPolygons())" >>

SubtractCode ==
    << "a.build(lhs)", "b.build(rhs)",
       "a.invert()", "a.clipTo(b)", "b.clipTo(a)", "b.invert()", "b.clipTo(a)",
       "b.invert()",
       "a.build(b.allPolygons())",
       "a.invert()" >>

IntersectCode ==
    << "a.build(lhs)", "b.build(rhs)",
       "a.invert()", "b.clipTo(a)", "b.invert()", "a.clipTo(b)", "b.clipTo(a)",
       "a.build(b.allPolygons())",
       "a.invert()" >>

Code(operator) ==
    IF operator = "merge" THEN MergeCode
    ELSE IF operator = "subtract" THEN SubtractCode
    ELSE IntersectCode

BuildStatements == {"a.build(lhs)", "b.build(rhs)", "a.build(b.allPolygons())"}
ClipStatements == {"a.clipTo(b)", "b.clipTo(a)"}
InvertStatements == {"a.invert()", "b.invert()"}

\* No Geometry returned yet.
NoResult == [polygons |-> << >>, error |-> "pending"]

VARIABLES
    op,         \* the operator called: "merge", "subtract" or "intersect"
    lhs, rhs,   \* its operands, two Geometry values
    options,    \* its Options
    pc,         \* 0 at the entry, then the index of the next statement of Code(op)
    mem,        \* the Node objects, the callback's counter, the limit flag
    a, b,       \* the addresses of the nodes a and b (Null before they exist)
    result,     \* the Geometry returned, NoResult while the operator runs
    steps,      \* the statements executed so far
    stack,      \* the activation records of Node::build, the innermost last
    ret,        \* the Error the build call that returned last has returned
    trees       \* the tree below node a as it was after each operation on a Node

vars == << op, lhs, rhs, options, pc, mem, a, b, result, steps, stack, ret, trees >>

\* The variables of the stepwise Node::build and of the operations on a
\* Node, while the operators run.
NoBuildTrace == stack = << >> /\ ret = NoError /\ trees = << >>

NoBuildTraceStep == UNCHANGED << stack, ret, trees >>

Running == result = NoResult

Statement == Code(op)[pc]

\* Lines 567-573: the checks of the operands, then auto a = Node{}, b = Node{}.
Enter ==
    /\ Running
    /\ pc = 0
    /\ IF reportError(lhs.error)
       THEN /\ result' = GeometryError(lhs.error)
            /\ UNCHANGED << pc, mem, a, b >>
       ELSE IF reportError(rhs.error)
       THEN /\ result' = GeometryError(lhs.error)
            /\ UNCHANGED << pc, mem, a, b >>
       ELSE /\ mem' = Alloc(Alloc(mem))
            /\ a' = Len(mem.heap) + 1
            /\ b' = Len(mem.heap) + 2
            /\ pc' = 1
            /\ UNCHANGED result
    /\ UNCHANGED << op, lhs, rhs, options, steps >>
    /\ NoBuildTraceStep

\* if (const auto error = x.build(..., options); reportError(...)) return Geometry{error};
StepBuild ==
    /\ Running
    /\ pc \in 1..Len(Code(op))
    /\ Statement \in BuildStatements
    /\ LET polygons == IF Statement = "a.build(lhs)" THEN lhs.polygons
                       ELSE IF Statement = "b.build(rhs)" THEN rhs.polygons
                       ELSE allPolygons(mem.heap, b)
           node     == IF Statement = "b.build(rhs)" THEN b ELSE a
           r        == build(mem, node, polygons, 0, options)
       IN  /\ mem' = r.m
           /\ ret' = r.error
           /\ IF reportError(r.error)
              THEN result' = GeometryError(r.error) /\ pc' = pc
              ELSE result' = result /\ pc' = pc + 1
    /\ steps' = Append(steps, Statement)
    /\ UNCHANGED << op, lhs, rhs, options, a, b, stack, trees >>

\* a.clipTo(b, options); or b.clipTo(a, options);
StepClipTo ==
    /\ Running
    /\ pc \in 1..Len(Code(op))
    /\ Statement \in ClipStatements
    /\ mem' = IF Statement = "a.clipTo(b)"
              THEN clipTo(mem, a, b, options)
              ELSE clipTo(mem, b, a, options)
    /\ pc' = pc + 1
    /\ steps' = Append(steps, Statement)
    /\ UNCHANGED << op, lhs, rhs, options, a, b, result >>
    /\ NoBuildTraceStep

\* a.invert(options); or b.invert(options);
StepInvert ==
    /\ Running
    /\ pc \in 1..Len(Code(op))
    /\ Statement \in InvertStatements
    /\ mem' = invert(mem, IF Statement = "a.invert()" THEN a ELSE b, options)
    /\ pc' = pc + 1
    /\ steps' = Append(steps, Statement)
    /\ UNCHANGED << op, lhs, rhs, options, a, b, result >>
    /\ NoBuildTraceStep

\* return Geometry{a.allPolygons()};
Return ==
    /\ Running
    /\ pc = Len(Code(op)) + 1
    /\ result' = Geometry(allPolygons(mem.heap, a))
    /\ UNCHANGED << op, lhs, rhs, options, pc, mem, a, b, steps >>
    /\ NoBuildTraceStep

(***************************************************************************)
(* The operands and options the operators are called with                  *)
(***************************************************************************)

\* The largest offset of a cube's center, in units of 1/Unit.
MaxDelta == 3

\* The smallest and largest recursion limit tried besides the default.
MinLimit == 5
MaxLimit == 7

\* The callback's first Abort is at one of the invocations 0..MaxAbortAt.
MaxAbortAt == 2

\* cube(center, 1) as in Test::testUnion: half extent 1 on every axis.
UnitCube(cx, cy, cz) == cube(<<cx, cy, cz>>, Vec(1, 1, 1))

\* The offsets of Test::testUnion_data, and the cubes a and b made from
\* them: along all three axes or along x alone.
CubePairs ==
    { << UnitCube(-d, -d, d), UnitCube(d, d, -d) >> : d \in 0..MaxDelta }
    \cup { << UnitCube(-d, 0, 0), UnitCube(d, 0, 0) >> : d \in 1..MaxDelta }

\* Geometry{error} for the errors the kernel sets besides RecursionError.
ErrorOperands == { GeometryError(ConvexityError), GeometryError(NotSupportedError) }

\* A solid of one face: the bottom of the unit cube.
Plate == Geometry(<< UnitCube(0, 0, 0).polygons[5] >>)

\* The polygons of a Geometry constructed with a shared tag each,
\* Polygon{vertices, shared}: the tag of polygon k is the pair (name, k).
Tagged(geometry, name) ==
    Geometry([k \in 1..Len(geometry.polygons) |->
                 Polygon(geometry.polygons[k].vertices, << name, k >>)])

\* Two overlapping cubes with tagged polygons; the same with tags on
\* one side only.
TaggedPairs ==
    { << Tagged(UnitCube(-1, -1, 1), "lhs"), Tagged(UnitCube(1, 1, -1), "rhs") >>,
      << Tagged(UnitCube(-1, 0, 0), "lhs"), UnitCube(1, 0, 0) >> }

\* The operands of the operators: the pairs of cubes, a plate and a cube,
\* cubes with tagged polygons, an erroneous Geometry on either side or on
\* both.
OperandPairs ==
    CubePairs
    \cup TaggedPairs
    \cup { << Plate, UnitCube(0, 0, 0) >> }
    \cup { << e, UnitCube(0, 0, 0) >> : e \in ErrorOperands }
    \cup { << UnitCube(0, 0, 0), e >> : e \in ErrorOperands }
    \cup { << GeometryError(ConvexityError), GeometryError(NotSupportedError) >> }

RecursionLimits == (MinLimit..MaxLimit) \cup {DefaultRecursionLimit}

\* The invocations of the two builds of an operator on two cubes: twelve
\* calls, one for each face.
AfterTwoCubes == Len(UnitCube(0, 0, 0).polygons) + Len(UnitCube(0, 0, 0).polygons)

Callbacks ==
    {NoCallback, Callback(1, 0)}
    \cup { Callback(k, k) : k \in 0..MaxAbortAt }
    \cup { Callback(k, DefaultRecursionLimit * DefaultRecursionLimit) : k \in 0..MaxAbortAt }
    \cup { Callback(AfterTwoCubes + 1, AfterTwoCubes + 1),
           Callback(AfterTwoCubes + 7, AfterTwoCubes + 8) }

Operators == {"merge", "subtract", "intersect"}

Init ==
    /\ op \in Operators
    /\ \E pair \in OperandPairs : lhs = pair[1] /\ rhs = pair[2]
    /\ \E limit \in RecursionLimits, cb \in Callbacks : options = Options(limit, cb)
    /\ pc = 0
    /\ mem = Memory(<< >>)
    /\ a = Null
    /\ b = Null
    /\ result = NoResult
    /\ steps = << >>
    /\ NoBuildTrace

Next == Enter \/ StepBuild \/ StepClipTo \/ StepInvert \/ Return

Spec == Init /\ [][Next]_vars

(***************************************************************************)
(* Node::build, one step per statement: the recursion made explicit        *)
(***************************************************************************)

\* The activation record of a call build(polygons, level, options) on the
\* node at address `node`: `at` is the place the call has reached, front
\* and back are its local lists, result is its local `result`.
Frame(node, polygons, level) ==
    [node |-> node, polygons |-> polygons, level |-> level, at |-> "entry",
     front |-> << >>, back |-> << >>, result |-> NoError]

Top == stack[Len(stack)]

Pop == SubSeq(stack, 1, Len(stack) - 1)

SetTop(frame) == [stack EXCEPT ![Len(stack)] = frame]

\* No Node::build recursion in the model goes deeper than this; a call
\* chain that reaches it stops for good.
StackCap == MaxLimit + 2

BuildFrameVars == << op, lhs, rhs, options, a, b, result, steps, trees >>

\* Lines 746-766: the limit check, the callback, the empty list, the
\* adoption of the plane and the split loop.
BuildEnter ==
    /\ stack # << >>
    /\ Top.at = "entry"
    /\ IF LimitReached(Top.level, options)
       THEN /\ mem' = LimitError(mem).m
            /\ ret' = LimitError(mem).error
            /\ stack' = Pop
       ELSE IF Aborts(mem, options)
       THEN /\ mem' = Aborted(mem, options).m
            /\ ret' = Aborted(mem, options).error
            /\ stack' = Pop
       ELSE IF Top.polygons = << >>
       THEN /\ mem' = NothingToDo(mem, options).m
            /\ ret' = NothingToDo(mem, options).error
            /\ stack' = Pop
       ELSE \E s \in { BuildSplit(mem.heap[Top.node], Top.polygons) } :
                /\ mem' = BuildStore(Called(mem, options), Top.node, s)
                /\ stack' = SetTop([Top EXCEPT !.at = "front",
                                               !.front = s.front,
                                               !.back = s.back])
                /\ ret' = ret
    /\ UNCHANGED << BuildFrameVars, pc >>

\* Lines 768-772: if (!front.empty()) { ...; m_front->build(front, level + 1, options)
BuildCallFront ==
    /\ stack # << >>
    /\ Top.at = "front"
    /\ IF Top.front # << >>
       THEN /\ Len(stack) < StackCap
            /\ mem' = EnsureFront(mem, Top.node)
            /\ stack' = Append(SetTop([Top EXCEPT !.at = "frontReturned"]),
                               Frame(mem'.heap[Top.node].front, Top.front, Top.level + 1))
       ELSE /\ mem' = mem
            /\ stack' = SetTop([Top EXCEPT !.at = "back"])
    /\ UNCHANGED << BuildFrameVars, pc, ret >>

\* Lines 773-774: the error of the front child's build.
BuildFrontReturned ==
    /\ stack # << >>
    /\ Top.at = "frontReturned"
    /\ stack' = SetTop([Top EXCEPT !.at = "back",
                                   !.result = FirstError(Top.result, ret)])
    /\ UNCHANGED << BuildFrameVars, pc, mem, ret >>

\* Lines 777-781: if (!back.empty()) { ...; m_back->build(back, level + 1, options)
BuildCallBack ==
    /\ stack # << >>
    /\ Top.at = "back"
    /\ IF Top.back # << >>
       THEN /\ Len(stack) < StackCap
            /\ mem' = EnsureBack(mem, Top.node)
            /\ stack' = Append(SetTop([Top EXCEPT !.at = "backReturned"]),
                               Frame(mem'.heap[Top.node].back, Top.back, Top.level + 1))
       ELSE /\ mem' = mem
            /\ stack' = SetTop([Top EXCEPT !.at = "exit"])
    /\ UNCHANGED << BuildFrameVars, pc, ret >>

\* Lines 782-783: the error of the back child's build.
BuildBackReturned ==
    /\ stack # << >>
    /\ Top.at = "backReturned"
    /\ stack' = SetTop([Top EXCEPT !.at = "exit",
                                   !.result = FirstError(Top.result, ret)])
    /\ UNCHANGED << BuildFrameVars, pc, mem, ret >>

\* Line 786: return result;
BuildExit ==
    /\ stack # << >>
    /\ Top.at = "exit"
    /\ ret' = Top.result
    /\ stack' = Pop
    /\ UNCHANGED << BuildFrameVars, pc, mem >>

\* The number of build calls made on the root node, one after the other.
MaxBuilds == 2

\* A further call node.build(polygons, options) on the tree built so far.
BuildAgain ==
    /\ stack = << >>
    /\ pc < MaxBuilds
    /\ pc' = pc + 1
    /\ stack' = << Frame(a, rhs.polygons, 0) >>
    /\ UNCHANGED << BuildFrameVars, mem, ret >>

(***************************************************************************)
(* The polygon lists Node::build is called with                            *)
(***************************************************************************)

\* Vertex{{x, y, z}, {0, 0, 1}}
UpVertex(x, y, z) == Vertex(Vec(x, y, z), Vec(0, 0, 1))

\* A quad that is not planar: its plane, derived from the first three
\* vertices, is z = 0, and its fourth vertex lies at z = dz.
WarpedQuad(dz) ==
    Polygon(<< UpVertex(0, 0, 0), UpVertex(1, 0, 0), UpVertex(1, 1, 0),
               UpVertex(0, 1, dz) >>, NoShared)

\* A pentagon that is not planar: the fourth vertex lies above and the
\* fifth below the plane of the first three.
WarpedPentagon ==
    Polygon(<< UpVertex(0, 0, 0), UpVertex(1, 0, 0), UpVertex(1, 1, 0),
               UpVertex(0, 1, 1), UpVertex(-1, 0, -1) >>, NoShared)

\* The first polygon of the list is not Coplanar to its own plane.
Warped(polygons) ==
    /\ polygons # << >>
    /\ polygonType(polygons[1], polygons[1].plane) # Coplanar

BuildInputs ==
    { Geometry(<< >>),
      UnitCube(0, 0, 0),
      Geometry(UnitCube(-1, -1, 1).polygons \o UnitCube(1, 1, -1).polygons),
      Geometry(<< UnitCube(0, 0, 0).polygons[1] >>),
      Geometry(<< WarpedQuad(1) >>),
      Geometry(<< WarpedQuad(-1), UnitCube(0, 0, 0).polygons[6] >>),
      Geometry(<< WarpedPentagon >>) }

\* The lists a further build call on the same root is given.
RebuildInputs ==
    { Geometry(<< >>),
      UnitCube(0, 0, 0),
      Geometry(<< WarpedQuad(1) >>) }

BuildLimits == 1..MaxLimit

InitBuild ==
    /\ op = "build"
    /\ lhs \in BuildInputs
    /\ rhs \in RebuildInputs
    /\ \E limit \in BuildLimits, cb \in Callbacks : options = Options(limit, cb)
    /\ pc = 1
    /\ mem = Alloc(Memory(<< >>))
    /\ a = 1
    /\ b = Null
    /\ result = NoResult
    /\ steps = << >>
    /\ stack = << Frame(1, lhs.polygons, 0) >>
    /\ ret = NoError
    /\ trees = << >>

NextBuild ==
    \/ BuildEnter
    \/ BuildCallFront
    \/ BuildFrontReturned
    \/ BuildCallBack
    \/ BuildBackReturned
    \/ BuildExit
    \/ BuildAgain

\* The calls run to completion: the program is sequential and nothing
\* but its own next statement is ever taken.
SpecBuild == InitBuild /\ [][NextBuild]_vars /\ WF_vars(NextBuild)

(***************************************************************************)
(* Operations on one Node: build, invert, inverted                         *)
(***************************************************************************)

\* The tree below the node at address id, by value: the plane and the
\* polygons of every node and the shape of the tree.
RECURSIVE TreeOf(_, _)
TreeOf(heap, id) ==
    IF id = Null
    THEN << >>
    ELSE << [plane    |-> heap[id].plane,
             polygons |-> heap[id].polygons,
             front    |-> TreeOf(heap, heap[id].front),
             back     |-> TreeOf(heap, heap[id].back)] >>

\* Node::fromPolygons(polygons, options): auto node = Node{}; node.build(...)
fromPolygons(polygons, opts) == build(Alloc(Memory(<< >>)), 1, polygons, 0, opts)

\* The number of operations applied to the node, one after the other.
MaxOps == 3

NodeVars == << op, lhs, rhs, options, result, stack >>

\* The operation `name` has been applied and has left the memory m.
Applied(name, m) ==
    /\ pc < MaxOps
    /\ pc' = pc + 1
    /\ mem' = m
    /\ steps' = Append(steps, name)
    /\ trees' = Append(trees, TreeOf(m.heap, a))

\* a.invert(options)
NodeInvert ==
    /\ Applied("invert", invert(mem, a, options))
    /\ UNCHANGED << NodeVars, a, b, ret >>

\* b = a.inverted(options)
NodeInverted ==
    /\ Applied("inverted", inverted(mem, a, options))
    /\ b' = Len(mem.heap) + 1
    /\ UNCHANGED << NodeVars, a, ret >>

\* b.invert(options) on the Node the last a.inverted() has returned
NodeInvertCopy ==
    /\ b # Null
    /\ Applied("copy.invert", invert(mem, b, options))
    /\ UNCHANGED << NodeVars, a, b, ret >>

\* a.build(rhs.polygons(), options)
NodeBuild ==
    /\ \E r \in { build(mem, a, rhs.polygons, 0, options) } :
          /\ Applied("build", r.m)
          /\ ret' = r.error
    /\ UNCHANGED << NodeVars, a, b >>

\* result = Geometry{a.allPolygons()}
NodeAllPolygons ==
    /\ Applied("allPolygons", mem)
    /\ result' = Geometry(allPolygons(mem.heap, a))
    /\ UNCHANGED << op, lhs, rhs, options, stack, a, b, ret >>

\* The polygon lists the node is made from.
NodeInputs ==
    { Geometry(<< >>),
      Plate,
      UnitCube(0, 0, 0),
      Geometry([k \in 1..6 |-> UnitCube(0, 0, 0).polygons[7 - k]]),
      Geometry(UnitCube(-1, -1, 1).polygons \o UnitCube(1, 1, -1).polygons) }

\* The callbacks of the operations on a Node: none, or one that aborts
\* its first or its second invocation.
NodeCallbacks == { NoCallback, Callback(0, 0), Callback(1, 1) }

\* The node a is Node::fromPolygons(lhs.polygons()) with default options.
InitNode ==
    /\ op = "node"
    /\ lhs \in NodeInputs
    /\ rhs = UnitCube(1, 0, 0)
    /\ \E cb \in NodeCallbacks : options = Options(DefaultRecursionLimit, cb)
    /\ pc = 0
    /\ mem = fromPolygons(lhs.polygons, Options(DefaultRecursionLimit, NoCallback)).m
    /\ a = 1
    /\ b = Null
    /\ result = NoResult
    /\ steps = << >>
    /\ stack = << >>
    /\ ret = NoError
    /\ trees = << TreeOf(mem.heap, a) >>

NextNode == NodeInvert \/ NodeInverted \/ NodeInvertCopy \/ NodeBuild \/ NodeAllPolygons

SpecNode == InitNode /\ [][NextNode]_vars

(***************************************************************************)
(* The primitives cube and sphere, called once                             *)
(***************************************************************************)

\* The coordinates of a center are -MaxCenter..MaxCenter and the half
\* extents of a cube 1..MaxSize, in units of 1/Unit.
MaxCenter == 1
MaxSize == 2

\* The numbers of slices and of stacks tried besides the defaults.
MaxSlices == 3
MaxStacks == 4

Centers == { << x, y, z >> : x, y, z \in -MaxCenter..MaxCenter }

\* The arguments of cube(center, size); cube() is cube({0, 0, 0}, 1).
CubeArguments ==
    { [center |-> c, size |-> << x, y, z >>] : c \in Centers, x, y, z \in 1..MaxSize }

\* The arguments of sphere(center, radius, slices, stacks); sphere() is
\* sphere({0, 0, 0}, 1, 16, 8).
SphereArguments ==
    { [center |-> Zero3, radius |-> Unit, slices |-> n, stacks |-> m] :
          n \in 1..MaxSlices, m \in 1..MaxStacks }
    \cup { [center |-> Zero3, radius |-> Unit, slices |-> 16, stacks |-> 8] }

\* What a read beyond the end of a list of vertices may yield.
Beyond == { "zero", "garbage" }

\* The process has been ended by the read beyond the end of a list.
Crashed == [polygons |-> << >>, error |-> "crashed"]

\* Polygon{vertices} has been called with fewer than three vertices.
ReadsBeyond(polygons) == \E k \in 1..Len(polygons) : Len(polygons[k].vertices) < 3

\* result = cube(center, size)
CallCube ==
    /\ op = "cube"
    /\ Running
    /\ result' = cube(lhs.center, lhs.size)
    /\ UNCHANGED << op, lhs, rhs, options, pc, mem, a, b, steps, stack, ret, trees >>

\* result = sphere(center, radius, slices, stacks)
CallSphere ==
    /\ op = "sphere"
    /\ Running
    /\ \E beyond \in Beyond :
          \E g \in { sphere(lhs.center, lhs.radius, lhs.slices, lhs.stacks, beyond) } :
              \/ result' = g
              \/ ReadsBeyond(g.polygons) /\ result' = Crashed
    /\ UNCHANGED << op, lhs, rhs, options, pc, mem, a, b, steps, stack, ret, trees >>

InitPrimitive ==
    /\ op \in {"cube", "sphere"}
    /\ lhs \in (IF op = "cube" THEN CubeArguments ELSE SphereArguments)
    /\ rhs = Geometry(<< >>)
    /\ options = Options(DefaultRecursionLimit, NoCallback)
    /\ pc = 0
    /\ mem = Memory(<< >>)
    /\ a = Null
    /\ b = Null
    /\ result = NoResult
    /\ steps = << >>
    /\ NoBuildTrace

NextPrimitive == CallCube \/ CallSphere

SpecPrimitive == InitPrimitive /\ [][NextPrimitive]_vars

(***************************************************************************)
(* A Geometry written to a device and read back.  The variable lhs is the *)
(* Geometry, steps the lines of the device, ret what writeGeometry has     *)
(* returned and result what readGeometry has returned.                     *)
(***************************************************************************)

\* A triangle in the plane z = 0 with its first corner at x (in units of
\* 1/Unit) on the x axis and legs of length 1.
FarTriangle(x) ==
    Geometry(<< Polygon(<< Vertex(<< x, 0, 0 >>, Vec(0, 0, 1)),
                           Vertex(<< x + Unit, 0, 0 >>, Vec(0, 0, 1)),
                           Vertex(<< x, Unit, 0 >>, Vec(0, 0, 1)) >>, NoShared) >>)

\* Coordinates of six, seven and eight digits: 99999.5, 100000.5, 1000001.
FarCoordinates == { 199999, 200001, 2000002 }

\* The Geometry values written: none or some polygons.
OffInputs ==
    { Geometry(<< >>), Plate,
      Geometry(UnitCube(-1, -1, 1).polygons \o UnitCube(1, 1, -1).polygons) }
    \cup { cube(c.center, c.size) : c \in CubeArguments }
    \cup { FarTriangle(x) : x \in FarCoordinates }

\* format->writeGeometry(geometry, &buffer)
OffWrite ==
    /\ op = "roundtrip"
    /\ pc = 0
    /\ steps' = writeGeometry(lhs)
    /\ ret' = NoError
    /\ pc' = 1
    /\ UNCHANGED << op, lhs, rhs, options, mem, a, b, result, stack, trees >>

\* readBack = format->readGeometry(&buffer)
OffRead ==
    /\ op = "roundtrip"
    /\ pc = 1
    /\ result' = readGeometry(steps)
    /\ pc' = 2
    /\ UNCHANGED << op, lhs, rhs, options, mem, a, b, steps, stack, ret, trees >>

InitOff ==
    /\ op = "roundtrip"
    /\ lhs \in OffInputs
    /\ rhs = Geometry(<< >>)
    /\ options = Options(DefaultRecursionLimit, NoCallback)
    /\ pc = 0
    /\ mem = Memory(<< >>)
    /\ a = Null
    /\ b = Null
    /\ result = NoResult
    /\ steps = << >>
    /\ NoBuildTrace

NextOff == OffWrite \/ OffRead

SpecOff == InitOff /\ [][NextOff]_vars

(***************************************************************************)
(* split, called once.  The variable lhs is a Geometry of the one polygon *)
(* split, rhs the plane, steps the appends split has made, in order.      *)
(***************************************************************************)

\* The planes x = w, y = w and z = w, facing either way, for w in
\* -MaxW..MaxW in units of 1/Unit.
MaxW == 3

AxisPlanes ==
    { Plane([n \in 1..3 |-> IF n = k THEN sign * Unit ELSE 0], sign * w) :
          k \in 1..3, sign \in {-1, 1}, w \in -MaxW..MaxW }

\* Outlines in the plane z = 0, in units of 1/Unit: a square, a triangle
\* with a corner on the y axis, a triangle with two corners on the x axis,
\* a pentagon that is not convex, and a hexagon with a vertex on each of
\* two opposite edges.
Outlines ==
    { << <<-2, -2>>, <<2, -2>>, <<2, 2>>, <<-2, 2>> >>,
      << <<-2, 0>>, <<2, -2>>, <<2, 2>> >>,
      << <<0, -2>>, <<2, 0>>, <<-2, 0>> >>,
      << <<-2, -2>>, <<2, -2>>, <<2, 2>>, <<0, 0>>, <<-2, 2>> >>,
      << <<-2, -2>>, <<0, -2>>, <<2, -2>>, <<2, 2>>, <<0, 2>>, <<-2, 2>> >> }

\* Polygon{vertices, shared} for an outline, its vertices in the given
\* order or in the opposite order; the vertex normals are +z.
Outlined(outline, shared) ==
    Polygon([n \in 1..Len(outline) |->
                 Vertex(<< outline[n][1], outline[n][2], 0 >>, Vec(0, 0, 1))],
            shared)

SplitInputs ==
    { Outlined(o, << "p", Len(o) >>) : o \in Outlines }
    \cup { Outlined(Reverse(o), NoShared) : o \in Outlines }

\* split(polygon, plane, &coplanarFront, &coplanarBack, &front, &back, options)
CallSplit ==
    /\ op = "split"
    /\ pc = 0
    /\ steps' = split(lhs.polygons[1], rhs)
    /\ pc' = 1
    /\ UNCHANGED << op, lhs, rhs, options, mem, a, b, result, stack, ret, trees >>

InitSplit ==
    /\ op = "split"
    /\ \E polygon \in SplitInputs : lhs = Geometry(<< polygon >>)
    /\ rhs \in AxisPlanes
    /\ options = Options(DefaultRecursionLimit, NoCallback)
    /\ pc = 0
    /\ mem = Memory(<< >>)
    /\ a = Null
    /\ b = Null
    /\ result = NoResult
    /\ steps = << >>
    /\ NoBuildTrace

NextSplit == CallSplit

SpecSplit == InitSplit /\ [][NextSplit]_vars

(***************************************************************************)
(* clipPolygons and clipTo, called once on two trees.  Node a is built     *)
(* from lhs and node b from rhs; either may have been inverted.  The       *)
(* variable steps names the calls made and trees holds the Node objects    *)
(* as they were before the call of clipPolygons or clipTo.                 *)
(***************************************************************************)

\* The polygon lists of the tree a, which are also the lists clipped: one
\* face, cubes, a cube turned inside out, two cubes.
ClipInputs ==
    { Plate,
      UnitCube(0, 0, 0),
      Tagged(UnitCube(-1, -1, 1), "lhs"),
      Geometry(FlipAll(UnitCube(1, 0, 0).polygons)),
      Geometry(UnitCube(-1, 0, 0).polygons \o UnitCube(1, 0, 0).polygons) }

\* The polygon lists of the tree b; the empty list leaves b a Node{} with
\* a null plane.
ClipTrees ==
    { Geometry(<< >>), Plate, UnitCube(0, 0, 0), UnitCube(1, 1, -1), UnitCube(1, 0, 0),
      Geometry(UnitCube(-1, -1, 0).polygons \o UnitCube(1, 1, 0).polygons) }

\* a.invert() or b.invert() before the call, once per tree at most.
ClipInvert ==
    /\ op = "clip"
    /\ pc = 0
    /\ \E x \in {"a", "b"} :
          /\ \A n \in 1..Len(steps) : steps[n] # x
          /\ steps' = Append(steps, x)
          /\ mem' = invert(mem, IF x = "a" THEN a ELSE b,
                           Options(DefaultRecursionLimit, NoCallback))
    /\ UNCHANGED << op, lhs, rhs, options, pc, a, b, result, stack, ret, trees >>

\* result = b.clipPolygons(lhs.polygons(), options)
CallClipPolygons ==
    /\ op = "clip"
    /\ pc = 0
    /\ result' = Geometry(clipPolygons(mem.heap, b, lhs.polygons))
    /\ trees' = << mem.heap >>
    /\ steps' = Append(steps, "clipPolygons")
    /\ pc' = 1
    /\ UNCHANGED << op, lhs, rhs, options, mem, a, b, stack, ret >>

\* a.clipTo(b, options)
CallClipTo ==
    /\ op = "clip"
    /\ pc = 0
    /\ mem' = clipTo(mem, a, b, options)
    /\ trees' = << mem.heap >>
    /\ steps' = Append(steps, "clipTo")
    /\ pc' = 1
    /\ UNCHANGED << op, lhs, rhs, options, a, b, result, stack, ret >>

InitClip ==
    /\ op = "clip"
    /\ lhs \in ClipInputs
    /\ rhs \in ClipTrees
    /\ \E cb \in NodeCallbacks : options = Options(DefaultRecursionLimit, cb)
    /\ pc = 0
    /\ \E m1 \in { fromPolygons(lhs.polygons, Options(DefaultRecursionLimit, NoCallback)).m } :
          /\ a = 1
          /\ b = Len(m1.heap) + 1
          /\ mem = build(Alloc(m1), Len(m1.heap) + 1, rhs.polygons, 0,
                         Options(DefaultRecursionLimit, NoCallback)).m
    /\ result = NoResult
    /\ steps = << >>
    /\ stack = << >>
    /\ ret = NoError
    /\ trees = << >>

NextClip == ClipInvert \/ CallClipPolygons \/ CallClipTo

SpecClip == InitClip /\ [][NextClip]_vars

(***************************************************************************)
(* The operators as functions, Geometry::inversed, and the compositions    *)
(* of the README                                                           *)
(***************************************************************************)

\* The copy without the flip.
inversedCopy(geometry) == Geometry(geometry.polygons)

\* Geometry::inversed: a copy of the polygons, each flipped, in a new
\* Geometry{polygons}.
inversed(geometry) == Geometry(FlipAll(geometry.polygons))

\* The statements k.. of an operator's code run on the nodes a = 1 and
\* b = 2 of the memory m, and the Geometry the operator returns.
RECURSIVE RunFrom(_, _, _, _, _, _)
RunFrom(m, k, code, lhsPolygons, rhsPolygons, opts) ==
    IF k > Len(code)
    THEN Geometry(allPolygons(m.heap, 1))
    ELSE IF code[k] \in BuildStatements
    THEN Let(build(m, IF code[k] = "b.build(rhs)" THEN 2 ELSE 1,
                   IF code[k] = "a.build(lhs)" THEN lhsPolygons
                   ELSE IF code[k] = "b.build(rhs)" THEN rhsPolygons
                   ELSE allPolygons(m.heap, 2),
                   0, opts),
             LAMBDA r : IF reportError(r.error)
                        THEN GeometryError(r.error)
                        ELSE RunFrom(r.m, k + 1, code, lhsPolygons, rhsPolygons, opts))
    ELSE IF code[k] \in ClipStatements
    THEN Let(IF code[k] = "a.clipTo(b)" THEN clipTo(m, 1, 2, opts) ELSE clipTo(m, 2, 1, opts),
             LAMBDA n : RunFrom(n, k + 1, code, lhsPolygons, rhsPolygons, opts))
    ELSE Let(invert(m, IF code[k] = "a.invert()" THEN 1 ELSE 2, opts),
             LAMBDA n : RunFrom(n, k + 1, code, lhsPolygons, rhsPolygons, opts))

\* merge(lhs, rhs, options), subtract(...), intersect(...): the checks of
\* the operands, the two nodes, the statements, the return.
Operate(operator, lhsGeometry, rhsGeometry, opts) ==
    IF reportError(lhsGeometry.error) THEN GeometryError(lhsGeometry.error)
    ELSE IF reportError(rhsGeometry.error) THEN GeometryError(lhsGeometry.error)
    ELSE RunFrom(Alloc(Alloc(Memory(<< >>))), 1, Code(operator),
                 lhsGeometry.polygons, rhsGeometry.polygons, opts)

\* The operands of the comparison, each pair in both orders: unit cubes
\* that are equal, overlap along x, touch or lie apart, with and without
\* tags, a plate and a cube, and two boxes that cross each other.
DeMorganPairs ==
    Let({ << UnitCube(-d, 0, 0), UnitCube(d, 0, 0) >> : d \in 0..MaxDelta }
            \cup { << UnitCube(-d, -d, d), UnitCube(d, d, -d) >> : d \in 2..MaxDelta }
            \cup { << Tagged(UnitCube(-1, 0, 0), "lhs"), Tagged(UnitCube(1, 0, 0), "rhs") >>,
                   << Tagged(UnitCube(-1, 0, 0), "lhs"), UnitCube(1, 0, 0) >>,
                   << Plate, UnitCube(0, 0, 0) >>,
                   << cube(Zero3, Vec(2, 1, 1)), cube(Zero3, Vec(1, 2, 1)) >> },
        LAMBDA pairs : pairs \cup { << pair[2], pair[1] >> : pair \in pairs })

\* The call subtract(A, B) or intersect(A, B) has returned: it is kept as
\* the one frame of the stack, and merge(~A, B) for the subtraction,
\* merge(~A, ~B) for the intersection is called with nodes of its own.
CallMergeOfInversed ==
    /\ ~Running
    /\ stack = << >>
    /\ stack' = << [op |-> op, lhs |-> lhs, rhs |-> rhs, result |-> result] >>
    /\ op' = "merge"
    /\ lhs' = inversed(lhs)
    /\ rhs' = IF op = "subtract" THEN rhs ELSE inversed(rhs)
    /\ result' = NoResult
    /\ pc' = 0
    /\ mem' = Memory(<< >>)
    /\ a' = Null
    /\ b' = Null
    /\ steps' = << >>
    /\ UNCHANGED << options, ret, trees >>

\* the complement of the union that merge has returned
InverseMerged ==
    /\ ~Running
    /\ Len(stack) = 1
    /\ pc = Len(Code(op)) + 1
    /\ result' = inversed(result)
    /\ pc' = pc + 1
    /\ UNCHANGED << op, lhs, rhs, options, mem, a, b, steps, stack, ret, trees >>

InitDeMorgan ==
    /\ op \in {"subtract", "intersect"}
    /\ \E pair \in DeMorganPairs : lhs = pair[1] /\ rhs = pair[2]
    /\ options = Options(DefaultRecursionLimit, NoCallback)
    /\ pc = 0
    /\ mem = Memory(<< >>)
    /\ a = Null
    /\ b = Null
    /\ result = NoResult
    /\ steps = << >>
    /\ stack = << >>
    /\ ret = NoError
    /\ trees = << >>

NextDeMorgan ==
    \/ Enter \/ StepBuild \/ StepClipTo \/ StepInvert \/ Return
    \/ CallMergeOfInversed \/ InverseMerged

SpecDeMorgan == InitDeMorgan /\ [][NextDeMorgan]_vars

(***************************************************************************)
(* Vertex::transformed, Polygon::transformed, Geometry::transformed        *)
(***************************************************************************)

\* A QMatrix4x4 with the last row (0, 0, 0, 1): the three rows of its upper
\* left 3x3 part and its fourth column.
Matrix(linear, translation) == [linear |-> linear, translation |-> translation]

\* The 3x3 part applied to a vector.
Linear(rows, v) ==
    << rows[1][1] * v[1] + rows[1][2] * v[2] + rows[1][3] * v[3],
       rows[2][1] * v[1] + rows[2][2] * v[2] + rows[2][3] * v[3],
       rows[3][1] * v[1] + rows[3][2] * v[2] + rows[3][3] * v[3] >>

\* findScale: the lengths of the three columns.
findScale(matrix) ==
    [c \in 1..3 |-> ISqrt(matrix.linear[1][c] * matrix.linear[1][c]
                          + matrix.linear[2][c] * matrix.linear[2][c]
                          + matrix.linear[3][c] * matrix.linear[3][c])]

\* findRotation: every column divided by its length.
findRotation(matrix) ==
    Let(findScale(matrix),
        LAMBDA s : [r \in 1..3 |-> [c \in 1..3 |->
                       IF matrix.linear[r][c] < 0
                       THEN -((-matrix.linear[r][c]) \div s[c])
                       ELSE matrix.linear[r][c] \div s[c]]])

\* Vertex::transformed
VertexTransformed(v, matrix) ==
    Vertex(VAdd(Linear(matrix.linear, v.position), matrix.translation),
           Linear(findRotation(matrix), v.normal))

\* Polygon::transformed: return Polygon{std::move(transformed)};
PolygonTransformed(polygon, matrix) ==
    Polygon([i \in 1..Len(polygon.vertices) |->
                VertexTransformed(polygon.vertices[i], matrix)], NoShared)

\* Geometry::transformed
GeometryTransformed(geometry, matrix) ==
    Geometry([k \in 1..Len(geometry.polygons) |->
                 PolygonTransformed(geometry.polygons[k], matrix)])

\* Quarter turns about the z and the x axis, the identity, a mirror and a
\* scaling, each with a translation.
Matrices ==
    { Matrix(linear, translation) :
        linear \in { << <<1, 0, 0>>, <<0, 1, 0>>, <<0, 0, 1>> >>,
                     << <<0, -1, 0>>, <<1, 0, 0>>, <<0, 0, 1>> >>,
                     << <<1, 0, 0>>, <<0, 0, -1>>, <<0, 1, 0>> >>,
                     << <<-1, 0, 0>>, <<0, -1, 0>>, <<0, 0, 1>> >>,
                     << <<2, 0, 0>>, <<0, 2, 0>>, <<0, 0, 2>> >>,
                     << <<1, 0, 0>>, <<0, 3, 0>>, <<0, 0, 2>> >> },
        translation \in { Zero3, Vec(1, 0, 0), Vec(0, -1, 2) } }

\* The solids that are transformed, with and without tags.
TransformInputs ==
    { Plate, UnitCube(0, 0, 0), Tagged(Plate, "plate"), Tagged(UnitCube(1, 0, -1), "cube"),
      Geometry(UnitCube(0, 0, 0).polygons \o Tagged(UnitCube(1, 1, 1), "half").polygons) }

\* result = lhs.transformed(rhs)
CallGeometryTransformed ==
    /\ result = NoResult
    /\ result' = GeometryTransformed(lhs, rhs)
    /\ pc' = pc + 1
    /\ UNCHANGED << op, lhs, rhs, options, mem, a, b, steps, stack, ret, trees >>

\* steps = the polygons lhs.polygons()[k].transformed(rhs), one call each
CallPolygonTransformed ==
    /\ Len(steps) < Len(lhs.polygons)
    /\ steps' = Append(steps, PolygonTransformed(lhs.polygons[Len(steps) + 1], rhs))
    /\ pc' = pc + 1
    /\ UNCHANGED << op, lhs, rhs, options, mem, a, b, result, stack, ret, trees >>

InitTransform ==
    /\ op = "transformed"
    /\ lhs \in TransformInputs
    /\ rhs \in Matrices
    /\ options = Options(DefaultRecursionLimit, NoCallback)
    /\ pc = 0
    /\ mem = Memory(<< >>)
    /\ a = Null
    /\ b = Null
    /\ result = NoResult
    /\ steps = << >>
    /\ stack = << >>
    /\ ret = NoError
    /\ trees = << >>

NextTransform == CallGeometryTransformed \/ CallPolygonTransformed

SpecTransform == InitTransform /\ [][NextTransform]_vars

\* The memory after the first k statements of an operator's code, run on
\* the nodes a = 1 and b = 2.
RECURSIVE MemoryAfter(_, _, _, _, _)
MemoryAfter(k, code, lhsPolygons, rhsPolygons, opts) ==
    IF k = 0
    THEN Alloc(Alloc(Memory(<< >>)))
    ELSE Let(MemoryAfter(k - 1, code, lhsPolygons, rhsPolygons, opts),
             LAMBDA m :
                 IF code[k] \in BuildStatements
                 THEN build(m, IF code[k] = "b.build(rhs)" THEN 2 ELSE 1,
                            IF code[k] = "a.build(lhs)" THEN lhsPolygons
                            ELSE IF code[k] = "b.build(rhs)" THEN rhsPolygons
                            ELSE allPolygons(m.heap, 2),
                            0, opts).m
                 ELSE IF code[k] \in ClipStatements
                 THEN (IF code[k] = "a.clipTo(b)"
                       THEN clipTo(m, 1, 2, opts)
                       ELSE clipTo(m, 2, 1, opts))
                 ELSE invert(m, IF code[k] = "a.invert()" THEN 1 ELSE 2, opts))

(***************************************************************************)
(* Properties                                                              *)
(***************************************************************************)

\* The operator has returned.
Returned == result # NoResult

\* Neither operand carries an error.
ErrorFree == lhs.error = NoError /\ rhs.error = NoError

\* The callback, if one is installed, answers Proceed to every invocation.
NeverAborts ==
    ~options.inspection.installed \/ options.inspection.last < options.inspection.first

\* The callback has answered Abort at least once.
HasAborted ==
    /\ options.inspection.installed
    /\ options.inspection.first <= options.inspection.last
    /\ mem.calls > options.inspection.first

\* The number of levels of the tree below the node at address id.
RECURSIVE Depth(_, _)
Depth(heap, id) ==
    IF id = Null
    THEN 0
    ELSE Let(Depth(heap, heap[id].front), LAMBDA f :
             Let(Depth(heap, heap[id].back), LAMBDA k :
                 1 + (IF f > k THEN f ELSE k)))

\* C1: an operator called with an operand that carries an error does no
\* tree work (no node, no statement, no callback invocation) and returns a
\* Geometry with the error of that operand, which is never NoError.
OperandErrorIsReturned ==
    (Returned /\ ~ErrorFree)
        => /\ steps = << >>
           /\ mem.heap = << >>
           /\ mem.calls = 0
           /\ result.error = (IF lhs.error # NoError THEN lhs.error ELSE rhs.error)
           /\ result.error # NoError

\* C2: when one of the three build calls of an operator returns
\* RecursionError, the operator returns the Geometry with the error
\* RecursionError and no polygons, the failed build is the last statement
\* executed, and no step follows.
RecursionErrorEndsOperator ==
    /\ [](ret = RecursionError
            => /\ result = [polygons |-> << >>, error |-> RecursionError]
               /\ steps = SubSeq(Code(op), 1, Len(steps))
               /\ steps[Len(steps)] \in BuildStatements)
    /\ [][ret # RecursionError]_vars

\* C2 happens: the last build of subtract has failed with RecursionError
\* after both trees had been built, and the a.invert() after it is missing.
LastBuildFailed ==
    /\ op = "subtract"
    /\ ret = RecursionError
    /\ Returned
    /\ Len(steps) = 9

\* C3: every call of Node::build returns; called on a fresh node with a
\* list whose first polygon is not coplanar to its own plane, and with no
\* callback that aborts, it returns RecursionError.
BuildTerminates ==
    /\ (stack # << >>) ~> (stack = << >>)
    /\ [](stack = << >> /\ pc = 1 /\ Warped(lhs.polygons) /\ NeverAborts
            => ret = RecursionError)

\* C3 happens: a warped list has been handed down to the recursion limit
\* and the call has returned RecursionError.
WarpedBuildReturned ==
    /\ stack = << >>
    /\ pc = 1
    /\ Warped(lhs.polygons)
    /\ NeverAborts
    /\ ret = RecursionError
    /\ Len(mem.heap) > options.recursionLimit
    /\ options.recursionLimit = MaxLimit

\* C4: after a build call, whatever it returned, no node below the root is
\* at a level >= options.recursionLimit (the root is at level 0).
NoNodeAtLimit ==
    stack = << >> => Depth(mem.heap, a) <= options.recursionLimit

\* C5: without a callback, two calls of invert() in a row leave the tree
\* below the node exactly as it was: planes, polygons and children.
InvertTwiceRestores ==
    ~options.inspection.installed
        => \A i \in 1..(Len(steps) - 1) :
              (steps[i] = "invert" /\ steps[i + 1] = "invert")
                  => trees[i + 2] = trees[i]

\* C5 happens: a tree with children has been inverted twice, and the tree
\* in between is another one.
InvertedTwice ==
    /\ ~options.inspection.installed
    /\ Len(steps) >= 2
    /\ steps[1] = "invert"
    /\ steps[2] = "invert"
    /\ Depth(mem.heap, a) > 2
    /\ trees[2] # trees[1]
    /\ trees[3] = trees[1]

\* C6: a call of inverted() leaves the tree below its receiver as it was:
\* the planes, polygons and children of the node and of its descendants.
InvertedKeepsOriginal ==
    \A i \in 1..Len(steps) :
        steps[i] = "inverted" => trees[i + 1] = trees[i]

\* The step sequences of the specification's table of operators.
MergeTable ==
    << "a.clipTo(b)", "b.clipTo(a)", "b.invert()", "b.clipTo(a)", "b.invert()",
       "a.build(b.allPolygons())" >>

SubtractTable ==
    << "a.invert()", "a.clipTo(b)", "b.clipTo(a)", "b.invert()", "b.clipTo(a)",
       "b.invert()", "a.build(b.allPolygons())", "a.invert()" >>

IntersectTable ==
    << "a.invert()", "b.clipTo(a)", "b.invert()", "a.clipTo(b)", "b.clipTo(a)",
       "a.build(b.allPolygons())", "a.invert()" >>

\* The builds of a and b, then the tabled steps of the operator.
Tabled ==
    << "a.build(lhs)", "b.build(rhs)" >>
    \o (CASE op = "merge" -> MergeTable
          [] op = "subtract" -> SubtractTable
          [] op = "intersect" -> IntersectTable)

\* C7: with a built from lhs and b from rhs, the statements an operator
\* has executed are at any time the first ones of its tabled sequence, in
\* order; when it returns without an error it has executed all of them,
\* and what it returns is a.allPolygons() as it is then.
TabledStepsInOrder ==
    ErrorFree
        => /\ Len(steps) <= Len(Tabled)
           /\ steps = SubSeq(Tabled, 1, Len(steps))
           /\ (Returned /\ result.error = NoError)
                 => /\ steps = Tabled
                    /\ result.polygons = allPolygons(mem.heap, a)

\* C7 happens: subtract has returned after its whole sequence.
SubtractCompleted ==
    op = "subtract" /\ Returned /\ result.error = NoError /\ Len(steps) = 10

\* C8: an Abort is not an error: as long as no build has reached the
\* recursion limit, every build call has returned NoError, aborted or
\* not, and the operator, once it returns, returns a Geometry with
\* NoError after all of its steps.
AbortIsNoError ==
    (ErrorFree /\ ~mem.limitHit)
        => /\ ret = NoError
           /\ Returned => (result.error = NoError /\ Len(steps) = Len(Code(op)))

\* C8 happens: the callback has aborted the first build, or a later step,
\* and the operator has returned fewer polygons than without the Abort.
AbortedOperatorReturned ==
    /\ HasAborted
    /\ Returned
    /\ result.error = NoError
    /\ op = "merge"
    /\ lhs = rhs
    /\ Len(result.polygons) < Len(lhs.polygons)

\* C9: merge(A, A) for A = cube() returns, without an error, exactly the
\* polygons of A.
MergeOfEqualCubes ==
    (/\ op = "merge"
     /\ lhs = UnitCube(0, 0, 0)
     /\ rhs = UnitCube(0, 0, 0)
     /\ NeverAborts
     /\ ~mem.limitHit
     /\ Returned)
        => result = Geometry(lhs.polygons)

\* C9 happens: the merge of the two equal cubes with default options has
\* returned, and before the last build b held no polygon any more.
EqualCubesMerged ==
    /\ op = "merge"
    /\ lhs = UnitCube(0, 0, 0)
    /\ rhs = lhs
    /\ options = Options(DefaultRecursionLimit, NoCallback)
    /\ Returned
    /\ Len(result.polygons) = 6
    /\ allPolygons(mem.heap, b) = << >>

\* The polygon counts of Test::testUnion_data for the offsets 0.5, 1 and
\* 1.5 (d = 1, 2, 3 in units of 1/Unit): along all axes, along x alone.
UnionCountXYZ == << 24, 12, 12 >>

UnionCountX == << 14, 10, 12 >>

\* C10: merge of two cubes of half extent 1 whose centers are offset by
\* (-d, -d, d) and (d, d, -d), or by (-d, 0, 0) and (d, 0, 0), returns the
\* tabled number of polygons; the operands keep their 6 polygons.
UnionCounts ==
    (op = "merge" /\ NeverAborts /\ ~mem.limitHit /\ Returned)
        => \A d \in 1..3 :
              /\ (lhs = UnitCube(-d, -d, d) /\ rhs = UnitCube(d, d, -d))
                    => /\ result.error = NoError
                       /\ Len(result.polygons) = UnionCountXYZ[d]
                       /\ Len(lhs.polygons) = 6
                       /\ Len(rhs.polygons) = 6
              /\ (lhs = UnitCube(-d, 0, 0) /\ rhs = UnitCube(d, 0, 0))
                    => /\ result.error = NoError
                       /\ Len(result.polygons) = UnionCountX[d]
                       /\ Len(lhs.polygons) = 6
                       /\ Len(rhs.polygons) = 6

\* C10 happens: the overlapping cubes have been merged into 24 polygons.
OverlappingCubesMerged ==
    /\ op = "merge"
    /\ lhs = UnitCube(-1, -1, 1)
    /\ rhs = UnitCube(1, 1, -1)
    /\ options = Options(DefaultRecursionLimit, NoCallback)
    /\ Returned
    /\ Len(result.polygons) = 24

\* The statements of the operator that clip a tree, all executed.
ClipStepsDone ==
    \A k \in 1..Len(Code(op)) : Code(op)[k] \in ClipStatements => pc > k

\* C11: subtract(A, A) for A = cube(): once the clip steps are done neither
\* tree holds a polygon, and the operator returns a Geometry with NoError
\* and an empty polygon list.
SubtractOfEqualCubes ==
    (/\ op = "subtract"
     /\ lhs = UnitCube(0, 0, 0)
     /\ rhs = UnitCube(0, 0, 0)
     /\ NeverAborts
     /\ ~mem.limitHit)
        => /\ ClipStepsDone
                => (allPolygons(mem.heap, a) = << >> /\ allPolygons(mem.heap, b) = << >>)
           /\ Returned => result = Geometry(<< >>)

\* C11 happens: the cube has been subtracted from itself with the default
\* options, both trees had their six polygons before the first clip step.
EqualCubesSubtracted ==
    /\ op = "subtract"
    /\ lhs = UnitCube(0, 0, 0)
    /\ rhs = lhs
    /\ options = Options(DefaultRecursionLimit, NoCallback)
    /\ Returned
    /\ steps = SubtractCode
    /\ result.polygons = << >>
    /\ Len(lhs.polygons) = 6

\* The unit vector of axis k (1, 2, 3 for x, y, z) times sign.
AxisNormal(k, sign) == [n \in 1..3 |-> IF n = k THEN sign * Unit ELSE 0]

\* The polygon is the side of the box center +/- size on axis k towards
\* sign: four different corners of the box, all on that side and all with
\* the outward normal of that side, wound so that the plane through the
\* first three vertices has that normal too.
IsSide(polygon, center, size, k, sign) ==
    /\ Len(polygon.vertices) = 4
    /\ Cardinality({ polygon.vertices[n].position : n \in 1..4 }) = 4
    /\ \A n \in 1..4 :
          /\ polygon.vertices[n].normal = AxisNormal(k, sign)
          /\ polygon.vertices[n].position[k] = center[k] + sign * size[k]
          /\ \A x \in 1..3 :
                polygon.vertices[n].position[x] \in {center[x] - size[x], center[x] + size[x]}
    /\ polygon.plane.normal = AxisNormal(k, sign)
    /\ normalVector(polygon.vertices[1].position,
                    polygon.vertices[2].position,
                    polygon.vertices[3].position) = AxisNormal(k, sign)

\* The sides of cube in the order of its polygons: axis and sign.
CubeSides == << <<1, -1>>, <<1, 1>>, <<2, -1>>, <<2, 1>>, <<3, -1>>, <<3, 1>> >>

\* C12: cube(center, size) with positive half extents returns 6 polygons
\* of 4 vertices, polygon k being the side CubeSides[k] of the box with
\* outward vertex normals and an outward plane normal; face 0 of cube()
\* is (-1,-1,-1), (-1,-1,1), (-1,1,1), (-1,1,-1) with normal (-1,0,0).
CubeHasSixSides ==
    (op = "cube" /\ Returned)
        => /\ result.error = NoError
           /\ Len(result.polygons) = 6
           /\ \A k \in 1..6 :
                 IsSide(result.polygons[k], lhs.center, lhs.size,
                        CubeSides[k][1], CubeSides[k][2])
           /\ (lhs.center = Zero3 /\ lhs.size = Vec(1, 1, 1))
                 => /\ [n \in 1..4 |-> result.polygons[1].vertices[n].position]
                         = << Vec(-1, -1, -1), Vec(-1, -1, 1), Vec(-1, 1, 1), Vec(-1, 1, -1) >>
                    /\ \A n \in 1..4 :
                          result.polygons[1].vertices[n].normal = Vec(-1, 0, 0)

\* C12 happens: cube() has returned its six polygons.
CubeReturned ==
    /\ op = "cube"
    /\ Returned
    /\ Len(result.polygons) = 6
    /\ lhs.center = Zero3
    /\ lhs.size = Vec(1, 1, 1)

\* C13: sphere(center, radius, slices, stacks) returns slices * stacks
\* polygons, the polygon of slice i and stack j being number
\* i * stacks + j, with 3 vertices for j = 0 and j = stacks - 1 and with
\* 4 vertices otherwise, for all slices >= 1 and stacks >= 1.
SphereCounts ==
    (op = "sphere" /\ Returned)
        => /\ result.error = NoError
           /\ Len(result.polygons) = lhs.slices * lhs.stacks
           /\ \A i \in 0..(lhs.slices - 1), j \in 0..(lhs.stacks - 1) :
                 Len(result.polygons[i * lhs.stacks + j + 1].vertices)
                     = (IF j = 0 \/ j = lhs.stacks - 1 THEN 3 ELSE 4)

\* The positions of the vertices of a polygon, in order.
PositionsOf(polygon) ==
    [n \in 1..Len(polygon.vertices) |-> polygon.vertices[n].position]

\* C14: readGeometry of the text writeGeometry has written for an
\* error-free Geometry of zero or more polygons returns NoError and as
\* many polygons, each with the same vertex positions in the same order;
\* the polygons read back for cube() are equal to those of cube().
OffRoundTrip ==
    (op = "roundtrip" /\ pc = 2 /\ lhs.error = NoError)
        => /\ ret = NoError
           /\ result.error = NoError
           /\ Len(result.polygons) = Len(lhs.polygons)
           /\ \A k \in 1..Len(lhs.polygons) :
                 PositionsOf(result.polygons[k]) = PositionsOf(lhs.polygons[k])
           /\ lhs = UnitCube(0, 0, 0) => result.polygons = lhs.polygons

\* The polygons the operator was called with, and the polygons that exist
\* now: in the trees a and b and in the Geometry returned.
InputPolygons == lhs.polygons \o rhs.polygons

LivePolygons ==
    (IF a # Null THEN allPolygons(mem.heap, a) \o allPolygons(mem.heap, b) ELSE << >>)
    \o result.polygons

\* The smallest and the largest coordinate x of the polygon's vertices.
Least(polygon, x) ==
    CHOOSE c \in { polygon.vertices[n].position[x] : n \in 1..Len(polygon.vertices) } :
        \A n \in 1..Len(polygon.vertices) : c <= polygon.vertices[n].position[x]

Most(polygon, x) ==
    CHOOSE c \in { polygon.vertices[n].position[x] : n \in 1..Len(polygon.vertices) } :
        \A n \in 1..Len(polygon.vertices) : c >= polygon.vertices[n].position[x]

\* Polygon q is a copy, a flip or a fragment of the polygon p, as far as
\* its place tells, and carries p's shared tag: q lies in the plane of p,
\* facing either way, and within the extent of p.
CutFrom(q, p) ==
    /\ q.shared = p.shared
    /\ q.plane \in { p.plane, PlaneFlip(p.plane) }
    /\ \A n \in 1..Len(q.vertices) :
          /\ Distance(p.plane, q.vertices[n]) = 0
          /\ \A x \in 1..3 :
                /\ Least(p, x) <= q.vertices[n].position[x]
                /\ q.vertices[n].position[x] <= Most(p, x)

\* C15: the shared tag passes through the kernel unchanged: at any time
\* every polygon in the trees a and b and every polygon returned carries
\* the shared tag of an input polygon that it is a copy, a flip or a
\* fragment of; no tag appears that no input polygon has.
SharedTagKept ==
    ErrorFree
        => Let(LivePolygons, LAMBDA live :
               \A k \in 1..Len(live) :
                   \E n \in 1..Len(InputPolygons) : CutFrom(live[k], InputPolygons[n]))

\* C15 happens: an operator has returned fragments of tagged polygons of
\* both operands, more polygons than it was given.
TaggedFragmentsReturned ==
    /\ Returned
    /\ lhs = Tagged(UnitCube(-1, -1, 1), "lhs")
    /\ rhs = Tagged(UnitCube(1, 1, -1), "rhs")
    /\ Len(result.polygons) > Len(InputPolygons)
    /\ \E k, n \in 1..Len(result.polygons) :
          /\ result.polygons[k].shared[1] = "lhs"
          /\ result.polygons[n].shared[1] = "rhs"

\* The signed distance t of a position from the plane of a split, and the
\* three classes of the claim: t < -epsilon, t > +epsilon, neither.
SignedDistance(plane, position) == dotProduct(plane.normal, position) - plane.w

IsBack(plane, v) == SignedDistance(plane, v.position) * EpsilonInv < -Unit

IsFront(plane, v) == SignedDistance(plane, v.position) * EpsilonInv > Unit

\* The polygon has been split by the plane.
SplitDone == op = "split" /\ pc = 1

SomeFront == \E n \in 1..Len(lhs.polygons[1].vertices) : IsFront(rhs, lhs.polygons[1].vertices[n])

SomeBack == \E n \in 1..Len(lhs.polygons[1].vertices) : IsBack(rhs, lhs.polygons[1].vertices[n])

\* The list that a polygon with no vertex on one side of the plane goes to.
ListOfUnsplit ==
    IF SomeFront THEN "front"
    ELSE IF SomeBack THEN "back"
    ELSE IF dotProduct(rhs.normal, lhs.polygons[1].plane.normal) > 0 THEN "coplanarFront"
    ELSE "coplanarBack"

\* C16: a polygon that does not have both a Front vertex (t > epsilon)
\* and a Back vertex (t < -epsilon) is appended unmodified to exactly one
\* list and nothing else is appended: to front if it has a Front vertex,
\* to back if it has a Back vertex, else to coplanarFront if its normal
\* and the plane's have a positive dot product, else to coplanarBack.
UnsplitGoesToOneList ==
    (SplitDone /\ ~(SomeFront /\ SomeBack))
        => steps = << [to |-> ListOfUnsplit, polygon |-> lhs.polygons[1]] >>

\* C16 happens: a polygon in the plane has gone to coplanarBack.
CoplanarBackAppended ==
    /\ SplitDone
    /\ ~SomeFront
    /\ ~SomeBack
    /\ Len(steps) = 1
    /\ steps[1].to = "coplanarBack"

\* Vertex k of the polygon split stays in the fragment of the side: it
\* is not Back for the front fragment, not Front for the back fragment.
Kept(side, k) ==
    IF side = "front"
    THEN ~IsBack(rhs, lhs.polygons[1].vertices[k])
    ELSE ~IsFront(rhs, lhs.polygons[1].vertices[k])

\* The vertex after vertex k, cyclically.
NextVertex(k) == lhs.polygons[1].vertices[(k % Len(lhs.polygons[1].vertices)) + 1]

\* The edge from vertex k to the next has one Front and one Back endpoint.
Crossing(k) ==
    \/ IsFront(rhs, lhs.polygons[1].vertices[k]) /\ IsBack(rhs, NextVertex(k))
    \/ IsBack(rhs, lhs.polygons[1].vertices[k]) /\ IsFront(rhs, NextVertex(k))

\* The number of vertices 1..k kept and of edges 1..k crossing.
KeptUpTo(side, k) == Cardinality({ j \in 1..k : Kept(side, j) })

CrossingUpTo(k) == Cardinality({ j \in 1..k : Crossing(j) })

\* The number c lies between d and e.
Between(c, d, e) == (d <= c /\ c <= e) \/ (e <= c /\ c <= d)

\* The fragment is the list of the vertices kept, in their order, with one
\* vertex more after vertex k for every crossing edge k, which lies in the
\* plane and between the ends of that edge; it has three vertices or more,
\* none of them beyond epsilon on the other side of the plane.
FragmentAsClaimed(fragment, side) ==
    /\ Len(fragment.vertices)
           = KeptUpTo(side, Len(lhs.polygons[1].vertices))
             + CrossingUpTo(Len(lhs.polygons[1].vertices))
    /\ \A k \in 1..Len(lhs.polygons[1].vertices) :
          /\ Kept(side, k)
                => fragment.vertices[KeptUpTo(side, k) + CrossingUpTo(k - 1)]
                       = lhs.polygons[1].vertices[k]
          /\ Crossing(k)
                => Let(fragment.vertices[KeptUpTo(side, k) + CrossingUpTo(k)], LAMBDA c :
                       /\ SignedDistance(rhs, c.position) = 0
                       /\ \A x \in 1..3 :
                             Between(c.position[x],
                                     lhs.polygons[1].vertices[k].position[x],
                                     NextVertex(k).position[x]))
    /\ Len(fragment.vertices) >= 3
    /\ \A n \in 1..Len(fragment.vertices) :
          IF side = "front"
          THEN SignedDistance(rhs, fragment.vertices[n].position) * EpsilonInv >= -Unit
          ELSE SignedDistance(rhs, fragment.vertices[n].position) * EpsilonInv <= Unit

\* C17: a polygon with a Front and a Back vertex is split into exactly one
\* fragment appended to front and one appended to back, nothing goes to
\* the coplanar lists; the front fragment is the list of the vertices that
\* are not Back, in order, with a vertex in the plane inserted after
\* vertex i for every edge (i, i + 1) from Front to Back or from Back to
\* Front, the back fragment likewise with the vertices that are not Front;
\* both have three vertices or more and lie on their side within epsilon.
SpanningSplitsInTwo ==
    (SplitDone /\ SomeFront /\ SomeBack)
        => /\ Len(steps) = 2
           /\ steps[1].to = "front"
           /\ steps[2].to = "back"
           /\ FragmentAsClaimed(steps[1].polygon, "front")
           /\ FragmentAsClaimed(steps[2].polygon, "back")

\* C17 happens: the plane has cut a polygon through one of its vertices
\* and through the opposite edge, into two triangles.
CutThroughVertex ==
    /\ SplitDone
    /\ SomeFront
    /\ SomeBack
    /\ \E k \in 1..Len(lhs.polygons[1].vertices) : Kept("front", k) /\ Kept("back", k)
    /\ Len(steps) = 2
    /\ Len(steps[1].polygon.vertices) = 3
    /\ Len(steps[2].polygon.vertices) = 3

\* The polygon has a vertex in front of the plane, behind the plane.
AnyFront(polygon, plane) ==
    \E n \in 1..Len(polygon.vertices) : IsFront(plane, polygon.vertices[n])

AnyBack(polygon, plane) ==
    \E n \in 1..Len(polygon.vertices) : IsBack(plane, polygon.vertices[n])

\* What becomes of one polygon on the given side of a node's plane: the
\* polygon itself if it lies on that side, or in the plane and facing the
\* plane's direction (front) or the opposite direction (back); its
\* fragments on that side if the plane cuts it; nothing otherwise.
SideOf(polygon, plane, side) ==
    IF AnyFront(polygon, plane) /\ AnyBack(polygon, plane)
    THEN PolygonsOf(SelectSeq(split(polygon, plane), LAMBDA x : x.to = side))
    ELSE IF AnyFront(polygon, plane) THEN (IF side = "front" THEN << polygon >> ELSE << >>)
    ELSE IF AnyBack(polygon, plane) THEN (IF side = "back" THEN << polygon >> ELSE << >>)
    ELSE IF (dotProduct(plane.normal, polygon.plane.normal) > 0) <=> (side = "front")
    THEN << polygon >>
    ELSE << >>

\* The front list or the back list of the polygons 1..k.
RECURSIVE SideList(_, _, _, _)
SideList(polygons, plane, side, k) ==
    IF k = 0
    THEN << >>
    ELSE SideList(polygons, plane, side, k - 1) \o SideOf(polygons[k], plane, side)

\* The reference definition of clipPolygons: F + B.
RECURSIVE ClipReference(_, _, _)
ClipReference(heap, id, polygons) ==
    IF heap[id].plane = NullPlane
    THEN polygons
    ELSE (IF heap[id].front # Null
          THEN ClipReference(heap, heap[id].front,
                             SideList(polygons, heap[id].plane, "front", Len(polygons)))
          ELSE SideList(polygons, heap[id].plane, "front", Len(polygons)))
         \o
         (IF heap[id].back # Null
          THEN ClipReference(heap, heap[id].back,
                             SideList(polygons, heap[id].plane, "back", Len(polygons)))
          ELSE << >>)

\* C18: b.clipPolygons(P) returns what the reference definition gives (P
\* itself on a node with a null plane, else F + B with the back list
\* discarded where there is no back child) and leaves every Node as it
\* was.
ClipPolygonsIsReference ==
    (op = "clip" /\ pc = 1 /\ steps[Len(steps)] = "clipPolygons")
        => /\ result = Geometry(ClipReference(trees[1], b, lhs.polygons))
           /\ mem.heap = trees[1]

\* C18 happens: a list has been clipped by an inverted tree with front
\* children; some polygons were cut, some discarded.
ClippedByInvertedTree ==
    /\ op = "clip"
    /\ pc = 1
    /\ steps = << "b", "clipPolygons" >>
    /\ mem.heap[b].front # Null
    /\ result.polygons # << >>
    /\ \E k \in 1..Len(result.polygons) :
          \A n \in 1..Len(lhs.polygons) : result.polygons[k] # lhs.polygons[n]
    /\ Len(result.polygons) < 2 * Len(lhs.polygons)

\* The addresses of the nodes of the tree below the node at address id.
RECURSIVE NodesOf(_, _)
NodesOf(heap, id) ==
    IF id = Null
    THEN { }
    ELSE {id} \cup NodesOf(heap, heap[id].front) \cup NodesOf(heap, heap[id].back)

\* a.clipTo(b) has been called.
ClipToDone == op = "clip" /\ pc = 1 /\ steps[Len(steps)] = "clipTo"

\* C19: a.clipTo(b) leaves every Node outside the tree a as it was, the
\* nodes of b among them, creates and removes no Node, and leaves every
\* node of a its plane and its two children; without an aborting callback
\* the polygon list of every node of a becomes b.clipPolygons(its old
\* list).
ClipToChangesListsOfA ==
    ClipToDone
        => /\ Len(mem.heap) = Len(trees[1])
           /\ \A id \in NodesOf(trees[1], b) : mem.heap[id] = trees[1][id]
           /\ \A id \in 1..Len(trees[1]) :
                 /\ mem.heap[id].plane = trees[1][id].plane
                 /\ mem.heap[id].front = trees[1][id].front
                 /\ mem.heap[id].back = trees[1][id].back
                 /\ id \notin NodesOf(trees[1], a) => mem.heap[id] = trees[1][id]
                 /\ (NeverAborts /\ id \in NodesOf(trees[1], a))
                       => mem.heap[id].polygons
                              = clipPolygons(trees[1], b, trees[1][id].polygons)

\* C19 happens: clipTo has emptied the list of a node that has a child and
\* has changed the list of another node; no callback was installed.
ClipToEmptiedANode ==
    /\ ClipToDone
    /\ ~options.inspection.installed
    /\ \E id \in NodesOf(trees[1], a) :
          /\ trees[1][id].polygons # << >>
          /\ mem.heap[id].polygons = << >>
          /\ mem.heap[id].back # Null
    /\ \E id \in NodesOf(trees[1], a) : mem.heap[id].polygons # << >>

\* The polygon lies in the plane: no vertex in front of it, none behind.
InPlane(polygon, plane) == ~AnyFront(polygon, plane) /\ ~AnyBack(polygon, plane)

\* A Node that has just been made, as a tree.
FreshTree == [plane |-> NullPlane, polygons |-> << >>, front |-> << >>, back |-> << >>]

\* The child a list is handed to: the child that is there, or a new one.
ChildFor(child) == IF child = << >> THEN FreshTree ELSE child[1]

\* The tree node.build(P) leaves, written from the placement rule: the
\* plane is kept or adopted from P's first polygon, the polygons in the
\* plane follow the node's own, the others and the fragments go in input
\* order to the child of their side, which is made only for a list that is
\* not empty.
RECURSIVE Placed(_, _)
Placed(node, P) ==
    IF P = << >>
    THEN node
    ELSE LET plane == IF node.plane = NullPlane THEN P[1].plane ELSE node.plane
             own   == SelectSeq(P, LAMBDA x : InPlane(x, plane))
             rest  == SelectSeq(P, LAMBDA x : ~InPlane(x, plane))
             F     == SideList(rest, plane, "front", Len(rest))
             B     == SideList(rest, plane, "back", Len(rest))
         IN  [plane    |-> plane,
              polygons |-> node.polygons \o own,
              front    |-> IF F = << >> THEN node.front
                           ELSE << Placed(ChildFor(node.front), F) >>,
              back     |-> IF B = << >> THEN node.back
                           ELSE << Placed(ChildFor(node.back), B) >>]

\* Every later polygon of the list lies behind the plane of every earlier
\* one.
BehindEarlier(P) ==
    \A i \in 1..Len(P) : \A j \in (i + 1)..Len(P) :
        AnyBack(P[j], P[i].plane) /\ ~AnyFront(P[j], P[i].plane)

\* The tree is a chain of back children, one for each of the polygons
\* k..Len(P), each with the one polygon and its plane and no front child.
RECURSIVE BackChain(_, _, _)
BackChain(tree, P, k) ==
    /\ tree # << >>
    /\ tree[1].plane = P[k].plane
    /\ tree[1].polygons = << P[k] >>
    /\ tree[1].front = << >>
    /\ IF k = Len(P) THEN tree[1].back = << >> ELSE BackChain(tree[1].back, P, k + 1)

\* a.build(rhs.polygons()) has just been applied to the node a.
BuildApplied == op = "node" /\ pc > 0 /\ steps[Len(steps)] = "build"

IsFlipped(q, p) ==
    /\ Len(q.vertices) = Len(p.vertices)
    /\ \A i \in 1..Len(p.vertices) :
          /\ q.vertices[i].position = p.vertices[Len(p.vertices) + 1 - i].position
          /\ \A x \in 1..3 :
                q.vertices[i].normal[x] = -p.vertices[Len(p.vertices) + 1 - i].normal[x]
    /\ \A x \in 1..3 : q.plane.normal[x] = -p.plane.normal[x]
    /\ q.plane.w = -p.plane.w
    /\ q.shared = p.shared

\* The tree t is the tree s inverted: at every node the plane negated,
\* every polygon flipped in its place, and the children exchanged.
RECURSIVE IsInverted(_, _)
IsInverted(t, s) ==
    IF s = << >>
    THEN t = << >>
    ELSE /\ t # << >>
         /\ \A x \in 1..3 : t[1].plane.normal[x] = -s[1].plane.normal[x]
         /\ t[1].plane.w = -s[1].plane.w
         /\ Len(t[1].polygons) = Len(s[1].polygons)
         /\ \A k \in 1..Len(s[1].polygons) : IsFlipped(t[1].polygons[k], s[1].polygons[k])
         /\ IsInverted(t[1].front, s[1].back)
         /\ IsInverted(t[1].back, s[1].front)

\* The tree is a chain of n front children of one quad each, without a
\* back child.
RECURSIVE FrontChain(_, _)
FrontChain(tree, n) ==
    /\ tree # << >>
    /\ Len(tree[1].polygons) = 1
    /\ Len(tree[1].polygons[1].vertices) = 4
    /\ tree[1].back = << >>
    /\ IF n = 1 THEN tree[1].front = << >> ELSE FrontChain(tree[1].front, n - 1)

\* a.invert() has just been applied to the node a, without a callback.
InvertApplied ==
    op = "node" /\ pc > 0 /\ steps[Len(steps)] = "invert" /\ ~options.inspection.installed

RECURSIVE PreOrder(_)
PreOrder(t) ==
    IF t = << >>
    THEN << >>
    ELSE t[1].polygons \o PreOrder(t[1].front) \o PreOrder(t[1].back)

\* The number of polygons stored in the nodes of a tree.
RECURSIVE StoredIn(_)
StoredIn(t) ==
    IF t = << >>
    THEN 0
    ELSE Len(t[1].polygons) + StoredIn(t[1].front) + StoredIn(t[1].back)

\* a.allPolygons() has just been called.
AllPolygonsCalled == op = "node" /\ pc > 0 /\ steps[Len(steps)] = "allPolygons"

\* C22: allPolygons() returns the polygons stored in the nodes below the
\* root, each once, in pre-order (own polygons, front subtree, back
\* subtree); it changes no node, and a second call on the tree returns the
\* list of the first.
AllPolygonsIsPreOrder ==
    /\ [](AllPolygonsCalled
            => /\ result.polygons = PreOrder(trees[Len(trees)])
               /\ Len(result.polygons) = StoredIn(trees[Len(trees)])
               /\ trees[Len(trees)] = trees[Len(trees) - 1])
    /\ [][(op = "node" /\ steps' = Append(steps, "allPolygons"))
            => /\ mem' = mem
               /\ AllPolygonsCalled => result' = result]_vars

\* C22 happens: allPolygons() has been called twice in a row on a tree
\* with polygons in its root, in a front subtree and in a back subtree.
AllPolygonsCalledTwice ==
    /\ AllPolygonsCalled
    /\ Len(steps) > 2
    /\ steps[Len(steps) - 1] = "allPolygons"
    /\ trees[Len(trees)][1].polygons # << >>
    /\ \E t \in {trees[Len(trees)][1].back, trees[Len(trees)][1].front} :
          /\ t # << >>
          /\ t[1].front # << >>
          /\ t[1].back # << >>

\* The Node objects the node at address id points to.
ChildrenOf(heap, id) == {heap[id].front, heap[id].back} \ {Null}

\* C23: whatever operations have been applied to the Node values (build,
\* invert, inverted, allPolygons, copies), no Node is the front or back
\* child of two Node objects: the child pointers form trees, and a change
\* made through one Node value is not seen through another.
ChildrenNeverShared ==
    op = "node"
        => \A i \in 1..Len(mem.heap) : \A j \in 1..Len(mem.heap) :
              i # j => ChildrenOf(mem.heap, i) \cap ChildrenOf(mem.heap, j) = { }

\* The rotations of a polygon's vertex list, with its plane and its tag.
Rotations(polygon) ==
    { [vertices |-> [i \in 1..Len(polygon.vertices) |->
                        polygon.vertices[((i + k - 1) % Len(polygon.vertices)) + 1]],
       plane    |-> polygon.plane,
       shared   |-> polygon.shared] : k \in 1..Len(polygon.vertices) }

\* The polygons of a Geometry as a set, each up to the rotation of its
\* vertex list.
PolygonSet(geometry) ==
    { Rotations(geometry.polygons[k]) : k \in 1..Len(geometry.polygons) }

\* Both the operator and the composition have returned.
BothReturned == Len(stack) = 1 /\ ~Running /\ pc = Len(Code(op)) + 2

\* C24: for error-free A and B subtract(A, B) has the polygons of
\* inversed(merge(inversed(A), B)), and intersect(A, B) those of
\* inversed(merge(inversed(A), inversed(B))), as sets and up to the
\* rotation of every polygon's vertex list; neither result is an error.
DeMorgan ==
    BothReturned
        => /\ stack[1].result.error = NoError
           /\ result.error = NoError
           /\ PolygonSet(stack[1].result) = PolygonSet(result)

\* C24 happens: an intersection and its composition have returned lists
\* that differ in order, with a polygon that the other list holds only
\* with its vertices rotated.
DeMorganUpToRotation ==
    /\ BothReturned
    /\ stack[1].op = "intersect"
    /\ stack[1].result.polygons # result.polygons
    /\ \E k \in 1..Len(result.polygons) :
          \A n \in 1..Len(stack[1].result.polygons) :
              result.polygons[k] # stack[1].result.polygons[n]

\* C25: after any build, whatever it returns and whether or not the
\* callback has cut it short, and after any invert that follows, every
\* front or back child in the memory has a plane that is not null.
NoEmptyChild ==
    op = "node"
        => \A id \in 1..Len(mem.heap) :
              \A child \in ChildrenOf(mem.heap, id) : ~isNull(mem.heap[child].plane)

\* The build call on top of the stack is entered at or above the limit.
EnteredAtLimit ==
    /\ op = "build"
    /\ stack # << >>
    /\ Top.at = "entry"
    /\ LimitReached(Top.level, options)

\* The first build call on the root has returned.
RootReturned == op = "build" /\ pc = 1 /\ stack = << >>

\* C29: a build call entered at level >= recursionLimit returns
\* RecursionError, does not invoke the callback and changes no Node; and
\* when any call of a build has been entered at the limit, the call on the
\* root returns RecursionError, whatever the callback has answered and the
\* other subtrees have returned.
RecursionErrorNeverLost ==
    /\ [][EnteredAtLimit
            => /\ ret' = RecursionError
               /\ stack' = Pop
               /\ mem'.calls = mem.calls
               /\ mem'.heap = mem.heap]_vars
    /\ []((RootReturned /\ mem.limitHit) => ret = RecursionError)

\* C29 happens: the build on the root has returned RecursionError, the
\* limit was reached in a child's call, and the callback has answered
\* Abort to another call.
RecursionErrorReturned ==
    /\ RootReturned
    /\ mem.limitHit
    /\ ret = RecursionError
    /\ options.recursionLimit > 1
    /\ HasAborted

\* C27: every polygon Polygon::transformed and Geometry::transformed
\* return carries the shared tag of the polygon it was computed from.
TransformedKeepsShared ==
    op = "transformed"
        => /\ \A k \in 1..Len(steps) : steps[k].shared = lhs.polygons[k].shared
           /\ \A k \in 1..Len(result.polygons) :
                 result.polygons[k].shared = lhs.polygons[k].shared

\* Every polygon of the list is Coplanar to its own cached plane.
AllPlanar(polygons) ==
    \A k \in 1..Len(polygons) : polygonType(polygons[k], polygons[k].plane) = Coplanar

\* The number of levels of a tree.
RECURSIVE Levels(_)
Levels(t) ==
    IF t = << >>
    THEN 0
    ELSE IF Levels(t[1].front) > Levels(t[1].back)
    THEN 1 + Levels(t[1].front)
    ELSE 1 + Levels(t[1].back)

\* Every node of the tree holds at least one polygon.
RECURSIVE EveryNodeHolds(_)
EveryNodeHolds(t) ==
    \/ t = << >>
    \/ /\ t[1].polygons # << >>
       /\ EveryNodeHolds(t[1].front)
       /\ EveryNodeHolds(t[1].back)

\* The first build, of a list of n >= 1 planar polygons onto the empty
\* root without a callback, has returned, and the polygons it has stored
\* are planar.
PlanarBuilt ==
    /\ RootReturned
    /\ ~options.inspection.installed
    /\ lhs.polygons # << >>
    /\ AllPlanar(lhs.polygons)
    /\ AllPlanar(PreOrder(TreeOf(mem.heap, a)))

\* C28: a build of n >= 1 planar polygons onto an empty node, without a
\* callback, leaves a tree of at most n levels in which every node holds
\* at least one polygon, and returns NoError whenever n <= recursionLimit.
PlanarDepthBound ==
    PlanarBuilt
        => /\ Levels(TreeOf(mem.heap, a)) <= Len(lhs.polygons)
           /\ EveryNodeHolds(TreeOf(mem.heap, a))
           /\ Len(lhs.polygons) <= options.recursionLimit => ret = NoError

\* The options without the callback.
Unobserved == Options(options.recursionLimit, NoCallback)

\* C30: with a callback that answers Proceed to every invocation, the
\* Nodes after every build, invert and clipTo of an operator are those of
\* the same call without a callback, and the operator returns the same
\* Geometry, polygons and error.
ObserverDoesNotInterfere ==
    (op \in Operators /\ options.inspection.installed /\ NeverAborts)
        => /\ a # Null
                => mem.heap = MemoryAfter(Len(steps), Code(op), lhs.polygons,
                                          rhs.polygons, Unobserved).heap
           /\ Returned => result = Operate(op, lhs, rhs, Unobserved)

\* C30 happens: an operator has returned a solid after all its steps, each
\* of which has invoked the callback, which has never answered Abort.
ObservedOperatorReturned ==
    /\ op \in Operators
    /\ options.inspection.installed
    /\ NeverAborts
    /\ Returned
    /\ result.polygons # << >>
    /\ Len(steps) = Len(Code(op))
    /\ mem.calls > Len(mem.heap)

\* The number of invocations c0..c1-1 of the callback that it answers
\* with Abort.
AbortsAmong(c0, c1) ==
    Cardinality({ i \in c0..(c1 - 1) :
                    options.inspection.first <= i /\ i <= options.inspection.last })

\* The Node at address id and the Nodes below it are in h1 as they were in
\* h0.
Untouched(h0, h1, id) == \A n \in NodesOf(h0, id) : h1[n] = h0[n]

\* The Node at address id as a call starts on it: the Node of h0, or a
\* Node just made by the caller.
NodeBefore(h0, id) == IF id <= Len(h0) THEN h0[id] ELSE EmptyNode

\* The Node as a call leaves it when it returns at once.
LeftAlone(h0, h1, id) ==
    IF id <= Len(h0) THEN Untouched(h0, h1, id) ELSE h1[id] = EmptyNode

\* The ways to read h1 as h0 after invert on the node id, each as the
\* pair of the number of invocations of the callback and the number of
\* calls that returned at an Abort: a call has either left its node and
\* all below it alone after one invocation, or, after one invocation, has
\* negated the plane, flipped the polygons, run on both children and
\* exchanged them.
RECURSIVE InvertOutcomes(_, _, _)
InvertOutcomes(h0, h1, id) ==
    IF id = Null
    THEN { << 0, 0 >> }
    ELSE (IF Untouched(h0, h1, id) THEN { << 1, 1 >> } ELSE { })
         \cup
         (IF /\ \A x \in 1..3 : h1[id].plane.normal[x] = -h0[id].plane.normal[x]
             /\ h1[id].plane.w = -h0[id].plane.w
             /\ Len(h1[id].polygons) = Len(h0[id].polygons)
             /\ \A k \in 1..Len(h0[id].polygons) :
                   IsFlipped(h1[id].polygons[k], h0[id].polygons[k])
             /\ h1[id].front = h0[id].back
             /\ h1[id].back = h0[id].front
          THEN { << 1 + f[1] + g[1], f[2] + g[2] >> :
                    f \in InvertOutcomes(h0, h1, h0[id].front),
                    g \in InvertOutcomes(h0, h1, h0[id].back) }
          ELSE { })

\* The same for clipTo(bsp) on the node id: left alone after one
\* invocation, or the list clipped by bsp, plane and children kept, and
\* both children called.
RECURSIVE ClipOutcomes(_, _, _, _)
ClipOutcomes(h0, h1, id, bsp) ==
    IF id = Null
    THEN { << 0, 0 >> }
    ELSE (IF Untouched(h0, h1, id) THEN { << 1, 1 >> } ELSE { })
         \cup
         (IF /\ h1[id].plane = h0[id].plane
             /\ h1[id].front = h0[id].front
             /\ h1[id].back = h0[id].back
             /\ h1[id].polygons = clipPolygons(h0, bsp, h0[id].polygons)
          THEN { << 1 + f[1] + g[1], f[2] + g[2] >> :
                    f \in ClipOutcomes(h0, h1, h0[id].front, bsp),
                    g \in ClipOutcomes(h0, h1, h0[id].back, bsp) }
          ELSE { })

\* The child a call of build has handed the list P to is the child that
\* was there, or a Node made for it.
HandedTo(h0, old, new, P) ==
    IF P = << >>
    THEN new = old
    ELSE new # Null /\ (IF old = Null THEN new > Len(h0) ELSE new = old)

\* The same for build(P, level) on the node id: at or above the limit the
\* node is left alone and the callback is not invoked; below it the call
\* invokes the callback once and then either leaves the node alone or
\* places the polygons and calls the children that get a list.
RECURSIVE BuildOutcomes(_, _, _, _, _)
BuildOutcomes(h0, h1, id, P, level) ==
    IF level >= options.recursionLimit
    THEN (IF LeftAlone(h0, h1, id) THEN { << 0, 0 >> } ELSE { })
    ELSE (IF LeftAlone(h0, h1, id)
          THEN { << 1, 1 >> } \cup (IF P = << >> THEN { << 1, 0 >> } ELSE { })
          ELSE { })
         \cup
         (IF P = << >>
          THEN { }
          ELSE LET plane == IF isNull(NodeBefore(h0, id).plane)
                            THEN P[1].plane ELSE NodeBefore(h0, id).plane
                   own   == SelectSeq(P, LAMBDA x : InPlane(x, plane))
                   rest  == SelectSeq(P, LAMBDA x : ~InPlane(x, plane))
                   F     == SideList(rest, plane, "front", Len(rest))
                   B     == SideList(rest, plane, "back", Len(rest))
               IN  IF /\ h1[id].plane = plane
                      /\ h1[id].polygons = NodeBefore(h0, id).polygons \o own
                      /\ HandedTo(h0, NodeBefore(h0, id).front, h1[id].front, F)
                      /\ HandedTo(h0, NodeBefore(h0, id).back, h1[id].back, B)
                   THEN { << 1 + f[1] + g[1], f[2] + g[2] >> :
                            f \in (IF F = << >>
                                   THEN (IF Untouched(h0, h1, h1[id].front)
                                         THEN { << 0, 0 >> } ELSE { })
                                   ELSE BuildOutcomes(h0, h1, h1[id].front, F, level + 1)),
                            g \in (IF B = << >>
                                   THEN (IF Untouched(h0, h1, h1[id].back)
                                         THEN { << 0, 0 >> } ELSE { })
                                   ELSE BuildOutcomes(h0, h1, h1[id].back, B, level + 1)) }
                   ELSE { })

\* The statement the step has run, with a callback installed.
Observed(statements) ==
    /\ op \in Operators
    /\ options.inspection.installed
    /\ Len(steps') = Len(steps) + 1
    /\ steps'[Len(steps')] \in statements

\* The invocations and the Aborts of the step.
Invoked == << mem'.calls - mem.calls, AbortsAmong(mem.calls, mem'.calls) >>

\* C26: with a callback installed every build call entered below the
\* recursion limit, every invert call and every clipTo call invokes the
\* callback once, and a call entered at the limit not at all; a call whose
\* invocation is answered with Abort returns with its node and all Nodes
\* below it as they were, every other call changes its node as without
\* the Abort, and the changes of the calls before the Abort stay.
InspectionPoints ==
    [][/\ Observed(InvertStatements)
            => /\ Len(mem'.heap) = Len(mem.heap)
               /\ Invoked \in InvertOutcomes(mem.heap, mem'.heap,
                       IF steps'[Len(steps')] = "a.invert()" THEN a ELSE b)
       /\ Observed(ClipStatements)
            => /\ Len(mem'.heap) = Len(mem.heap)
               /\ Invoked \in (IF steps'[Len(steps')] = "a.clipTo(b)"
                                THEN ClipOutcomes(mem.heap, mem'.heap, a, b)
                                ELSE ClipOutcomes(mem.heap, mem'.heap, b, a))
               /\ Untouched(mem.heap, mem'.heap,
                            IF steps'[Len(steps')] = "a.clipTo(b)" THEN b ELSE a)
       /\ Observed(BuildStatements)
            => Invoked \in BuildOutcomes(mem.heap, mem'.heap,
                   IF steps'[Len(steps')] = "b.build(rhs)" THEN b ELSE a,
                   IF steps'[Len(steps')] = "a.build(lhs)" THEN lhs.polygons
                   ELSE IF steps'[Len(steps')] = "b.build(rhs)" THEN rhs.polygons
                   ELSE allPolygons(mem.heap, b),
                   0)]_vars

\* C26 happens: subtract of two cubes has built both trees and has called
\* a.invert(); the callback has answered Abort to the call on the child
\* of the root, so that the root is inverted (its child is now its front
\* child) and the child is as it was (it still has its back child).
AbortedBelowTheRoot ==
    /\ op = "subtract"
    /\ Len(lhs.polygons) = 6
    /\ Len(rhs.polygons) = 6
    /\ options.inspection = Callback(AfterTwoCubes + 1, AfterTwoCubes + 1)
    /\ ~mem.limitHit
    /\ Len(steps) = 3
    /\ mem.calls = AfterTwoCubes + 2
    /\ mem.heap[a].back = Null
    /\ mem.heap[a].front # Null
    /\ mem.heap[mem.heap[a].front].back # Null

=============================================================================
